---- MODULE Spec2Model ----
(***************************************************************************)
(* Model of the analytics layer of the inflation dashboard                 *)
(* (src/analytics.py), driven the way src/main.py drives it: a long-format *)
(* table of (country, year, inflation) records is held in memory and the   *)
(* analytic functions are applied to it with the arguments the user        *)
(* selects.                                                                *)
(*                                                                         *)
(* Numbers.  Python floats are modelled as exact rationals <<n, d>> in     *)
(* lowest terms with d > 0, so every comparison and product below is the   *)
(* exact value of the expression the code evaluates (binary rounding of    *)
(* the last bits is not modelled).                                         *)
(*                                                                         *)
(* Optional values.  None is the empty tuple and a present value v is the  *)
(* one-element tuple <<v>>.                                                *)
(***************************************************************************)
EXTENDS Integers, Sequences, FiniteSets, TLC

VARIABLES
    inflation_df,   \* the table fetch_inflation_data returned
    map_call,       \* this run's prepare_map_data call: its argument and result
    calc_call,      \* this run's calculate_adjusted_value call
    cluster_call,   \* this run's cluster_countries call
    last_cluster,   \* the cluster_countries call of the most recent earlier run
    kmeans_fitted,  \* the last KMeans fit: its inputs and the labels it produced
    similar_call,   \* this run's find_similar_countries call
    insights_call,  \* this run's generate_insights call
    pc,             \* where the main script is: "fetch", "guard", "running",
                    \* "stopped" (st.stop()) or "crashed" (uncaught exception)
    fetch_ret,      \* what fetch_inflation_data returned: None or a table
    st_error,       \* the message the main script has shown with st.error
    fetch_loop,     \* fetch_inflation_data's loop: page, all_records, and the
                    \* requests made and responses received so far
    map_view,       \* this run's map tab: the toggles and the displayed rows
    calc_view       \* this run's Calculate handler: its inputs and how it ended

vars ==
    <<inflation_df, map_call, calc_call, cluster_call, last_cluster, kmeans_fitted,
      similar_call, insights_call, pc, fetch_ret, st_error, fetch_loop, map_view,
      calc_view>>

\* The run has not called an analytic function yet.  The model follows one
\* analytic call per run of the script.
NoCallYet ==
    /\ Len(map_call) = 0
    /\ Len(calc_call) = 0
    /\ Len(cluster_call) = 0
    /\ Len(similar_call) = 0
    /\ Len(insights_call) = 0

(***************************************************************************)
(* Bounds of the model                                                     *)
(***************************************************************************)
MaxMapRows == 2
MaxCalcRows == 3
MaxPivotRows == 3
MaxSimRows == 3
MaxTrendRows == 4
MaxInsightMapRows == 3
MaxPages == 3

(***************************************************************************)
(* Generic helpers                                                         *)
(***************************************************************************)
None == <<>>
Some(v) == <<v>>
IsNone(o) == Len(o) = 0
The(o) == o[1]

Abs(n) == IF n < 0 THEN -n ELSE n

RECURSIVE GCD(_, _)
GCD(a, b) == IF b = 0 THEN a ELSE GCD(b, a % b)

Rat(n, d) ==
    LET g == GCD(Abs(n), Abs(d))
        s == IF d < 0 THEN -1 ELSE 1
    IN  <<(s * n) \div g, (s * d) \div g>>

Num(n) == <<n, 1>>
RAdd(x, y) == Rat(x[1] * y[2] + y[1] * x[2], x[2] * y[2])
RSub(x, y) == Rat(x[1] * y[2] - y[1] * x[2], x[2] * y[2])
RMul(x, y) ==
    LET a == Rat(x[1], y[2])
        b == Rat(y[1], x[2])
    IN  <<a[1] * b[1], a[2] * b[2]>>
RDiv(x, y) == RMul(x, Rat(y[2], y[1]))
RLess(x, y) == x[1] * y[2] < y[1] * x[2]
RLeq(x, y) == x[1] * y[2] <= y[1] * x[2]
RAbs(x) == <<Abs(x[1]), x[2]>>

\* <<f(1), ..., f(n)>>
Tabulate(n, f(_)) ==
    LET RECURSIVE Build(_)
        Build(k) == IF k = 0 THEN <<>> ELSE Append(Build(k - 1), f(k))
    IN  Build(n)

MapSeq(f(_), s) == Tabulate(Len(s), LAMBDA i : f(s[i]))
Range(s) == {s[i] : i \in 1..Len(s)}

RECURSIVE SumSeq(_)
SumSeq(s) == IF Len(s) = 0 THEN Num(0) ELSE RAdd(s[1], SumSeq(Tail(s)))

SeqsUpTo(S, n) == UNION {[1..k -> S] : k \in 0..n}

(***************************************************************************)
(* Reference data (config.COUNTRY_COORDS).  Country "B" is a country the   *)
(* data source reports but the coordinate table does not know.             *)
(***************************************************************************)
Countries == {"A", "B", "C"}
Years == {2020, 2021, 2022}

COUNTRY_COORDS ==
    [c \in {"A", "C", "D", "E"} |->
        IF c = "A" THEN [lat |-> 10, lon |-> 20]
        ELSE IF c = "C" THEN [lat |-> 30, lon |-> 40]
        ELSE IF c = "D" THEN [lat |-> 50, lon |-> 60]
        ELSE [lat |-> 70, lon |-> 80]]

\* Reference data (config.COUNTRY_REGIONS): the region of every country of
\* the coordinate table.
COUNTRY_REGIONS ==
    [c \in {"A", "C", "D", "E"} |-> IF c \in {"A", "E"} THEN "Europe" ELSE "Asia"]

\* COUNTRY_REGIONS.get(x)
RegionGet(x) == IF x \in DOMAIN COUNTRY_REGIONS THEN Some(COUNTRY_REGIONS[x]) ELSE None

\* dict.get(x, {}).get(field)
CoordGet(x, field) ==
    IF x \in DOMAIN COUNTRY_COORDS THEN Some(COUNTRY_COORDS[x][field]) ELSE None

Record(c, y, x) == [country |-> c, year |-> y, inflation |-> x]
Records(cs, ys, xs) == {Record(c, y, x) : c \in cs, y \in ys, x \in xs}

(***************************************************************************)
(* prepare_map_data                                                        *)
(***************************************************************************)
DeflationColor == <<0, 100, 255, 200>>
LowColor == <<0, 200, 100, 200>>
ModerateColor == <<255, 200, 0, 200>>
HighColor == <<255, 100, 0, 200>>
VeryHighColor == <<255, 0, 0, 200>>

\* Mutant of get_color: the band boundaries belong to the lower band.
get_color_InclusiveUpper(inflation) ==
    IF RLess(inflation, Num(0)) THEN DeflationColor
    ELSE IF RLeq(inflation, Num(2)) THEN LowColor
    ELSE IF RLeq(inflation, Num(5)) THEN ModerateColor
    ELSE IF RLeq(inflation, Num(10)) THEN HighColor
    ELSE VeryHighColor

get_color(inflation) ==
    IF RLess(inflation, Num(0)) THEN DeflationColor
    ELSE IF RLess(inflation, Num(2)) THEN LowColor
    ELSE IF RLess(inflation, Num(5)) THEN ModerateColor
    ELSE IF RLess(inflation, Num(10)) THEN HighColor
    ELSE VeryHighColor

WithCoords(row) ==
    [country |-> row.country, year |-> row.year, inflation |-> row.inflation,
     lat |-> CoordGet(row.country, "lat"), lon |-> CoordGet(row.country, "lon")]

HasCoords(row) == ~IsNone(row.lat) /\ ~IsNone(row.lon)

WithColor(row) ==
    [country |-> row.country, year |-> row.year, inflation |-> row.inflation,
     lat |-> The(row.lat), lon |-> The(row.lon),
     color |-> get_color(row.inflation),
     elevation |-> RMul(RAbs(row.inflation), Num(10000))]

\* Mutant of YearMatches: the year filter keeps later years too.
YearMatches_AtLeast(row, year) == row.year >= year

YearMatches(row, year) == row.year = year

prepare_map_data(df, year) ==
    LET InYear(row) == YearMatches(row, year)
        year_data == SelectSeq(df, InYear)
        located == SelectSeq(MapSeq(WithCoords, year_data), HasCoords)
    IN  MapSeq(WithColor, located)

\* The inflation values the band boundaries are probed with.
BandProbes ==
    {Rat(-1, 100), Num(0), Rat(199, 100), Num(2), Rat(499, 100), Num(5),
     Rat(999, 100), Num(10), Rat(1001, 100)}

MapTables == SeqsUpTo(Records(Countries, {2020, 2021}, BandProbes), MaxMapRows)

InitMap ==
    /\ inflation_df \in MapTables
    /\ map_call = None
    /\ calc_call = None
    /\ cluster_call = None
    /\ last_cluster = None
    /\ kmeans_fitted = None
    /\ similar_call = None
    /\ insights_call = None
    /\ pc = "running"
    /\ fetch_ret = Some(inflation_df)
    /\ st_error = None
    /\ fetch_loop = None
    /\ map_view = None
    /\ calc_view = None

\* One run of the script computes map_data once, for the selected year.
CallPrepareMapData ==
    /\ pc = "running"
    /\ NoCallYet
    /\ \E year \in Years :
        /\ map_call' = Some([year |-> year, ret |-> prepare_map_data(inflation_df, year)])
        /\ UNCHANGED <<inflation_df, calc_call, cluster_call, last_cluster, kmeans_fitted,
                       similar_call, insights_call, pc, fetch_ret, st_error,
                   fetch_loop, map_view, calc_view>>

\* A widget interaction reruns the script from the top: the table is kept
\* (st.cache_data), every derived value of the previous run is discarded.
\* last_cluster remembers what the previous run's clustering returned, so
\* that two runs can be compared.
Rerun ==
    /\ pc \in {"running", "crashed"}
    /\ ~NoCallYet
    /\ pc' = "running"
    /\ map_view' = None
    /\ calc_view' = None
    /\ map_call' = None
    /\ calc_call' = None
    /\ cluster_call' = None
    /\ similar_call' = None
    /\ insights_call' = None
    /\ last_cluster' = IF IsNone(cluster_call) THEN last_cluster ELSE cluster_call
    /\ UNCHANGED <<inflation_df, kmeans_fitted, fetch_ret, st_error, fetch_loop>>

NextMap == CallPrepareMapData \/ Rerun

SpecMap == InitMap /\ [][NextMap]_vars

(***************************************************************************)
(* calculate_adjusted_value                                                *)
(***************************************************************************)
\* Mutant of InSpan: the start year itself is left out of the selection.
InSpan_AfterStart(row, country, start_year, end_year) ==
    /\ row.country = country
    /\ row.year > start_year
    /\ row.year <= end_year

InSpan(row, country, start_year, end_year) ==
    /\ row.country = country
    /\ row.year >= start_year
    /\ row.year <= end_year

IsSortedByYear(s) == \A i \in 1..(Len(s) - 1) : s[i].year <= s[i + 1].year

\* DataFrame.sort_values('year'): the rows in ascending year order.  The
\* default sort is not stable, so rows of the same year may come out in any
\* order: the result is one of these sequences.
sort_values_year(s) ==
    {t \in {[i \in 1..Len(s) |-> s[f[i]]] : f \in Permutations(1..Len(s))} :
        IsSortedByYear(t)}

\* Mutant of NextIndex: every rate is applied to the base index, not to the
\* running index.
NextIndex_FromBase(price_index, inflation) ==
    RMul(price_index[1], RAdd(Num(1), RDiv(inflation, Num(100))))

\* inflation_factor = 1 + (row.inflation / 100)
\* new_index = price_index[-1] * inflation_factor
NextIndex(price_index, inflation) ==
    RMul(price_index[Len(price_index)], RAdd(Num(1), RDiv(inflation, Num(100))))

\* Mutant of SkipsRow: no row is skipped, the start year's rate is applied.
SkipsRow_Never(row, start_year) == FALSE

\* if row.year == start_year: continue
SkipsRow(row, start_year) == row.year = start_year

\* The loop over country_data.itertuples(), from row i on; acc holds the three
\* lists years, price_index and adjusted_values.
RECURSIVE CompoundFrom(_, _, _, _, _)
CompoundFrom(country_data, i, start_year, initial_amount, acc) ==
    IF i > Len(country_data) THEN acc
    ELSE IF SkipsRow(country_data[i], start_year)
    THEN CompoundFrom(country_data, i + 1, start_year, initial_amount, acc)
    ELSE LET new_index == NextIndex(acc.price_index, country_data[i].inflation)
             adjusted_value == RMul(initial_amount, RDiv(new_index, Num(100)))
         IN  CompoundFrom(country_data, i + 1, start_year, initial_amount,
                 [years |-> Append(acc.years, country_data[i].year),
                  price_index |-> Append(acc.price_index, new_index),
                  adjusted_values |-> Append(acc.adjusted_values, adjusted_value)])

\* calculate_adjusted_value once country_data is selected and sorted.
AdjustSorted(country_data, start_year, initial_amount) ==
    IF Len(country_data) = 0 THEN [df |-> None, final |-> None]
    ELSE LET lists == CompoundFrom(country_data, 1, start_year, initial_amount,
                          [years |-> <<start_year>>,
                           price_index |-> <<Num(100)>>,
                           adjusted_values |-> <<initial_amount>>])
         IN  [df |-> Some([i \in 1..Len(lists.years) |->
                              [year |-> lists.years[i],
                               price_index |-> lists.price_index[i],
                               adjusted_value |-> lists.adjusted_values[i]]]),
              final |-> IF Len(lists.adjusted_values) > 0
                        THEN Some(lists.adjusted_values[Len(lists.adjusted_values)])
                        ELSE None]

\* The results calculate_adjusted_value can return.
calculate_adjusted_value(country, start_year, end_year, initial_amount, inflation_data) ==
    LET Selected(row) == InSpan(row, country, start_year, end_year)
    IN  {AdjustSorted(country_data, start_year, initial_amount) :
            country_data \in sort_values_year(SelectSeq(inflation_data, Selected))}

CalcRates == {Num(5), Num(-2), Num(8)}
CalcAmounts == {Num(100), Num(250)}
CalcTables ==
    SeqsUpTo(Records({"A"}, Years, CalcRates) \cup Records({"B"}, Years, {Num(8)}),
             MaxCalcRows)

InitCalc ==
    /\ inflation_df \in CalcTables
    /\ map_call = None
    /\ calc_call = None
    /\ cluster_call = None
    /\ last_cluster = None
    /\ kmeans_fitted = None
    /\ similar_call = None
    /\ insights_call = None
    /\ pc = "running"
    /\ fetch_ret = Some(inflation_df)
    /\ st_error = None
    /\ fetch_loop = None
    /\ map_view = None
    /\ calc_view = None

\* The Calculate button: one call per run of the script.
CallCalculateAdjustedValue ==
    /\ pc = "running"
    /\ NoCallYet
    /\ \E country \in {"A", "B"}, start_year \in Years, end_year \in Years,
       initial_amount \in CalcAmounts :
        \E ret \in calculate_adjusted_value(country, start_year, end_year,
                                             initial_amount, inflation_df) :
            /\ calc_call' = Some([country |-> country, start_year |-> start_year,
                                  end_year |-> end_year,
                                  initial_amount |-> initial_amount, ret |-> ret])
            /\ UNCHANGED <<inflation_df, map_call, cluster_call, last_cluster,
                           kmeans_fitted, similar_call, insights_call, pc, fetch_ret, st_error,
                   fetch_loop, map_view, calc_view>>

NextCalc == CallCalculateAdjustedValue \/ Rerun

SpecCalc == InitCalc /\ [][NextCalc]_vars

(***************************************************************************)
(* The trajectory matrix of cluster_countries and find_similar_countries   *)
(***************************************************************************)
\* Country names in the order Python compares strings.
CountryOrder == <<"A", "B", "C", "D", "E">>

SortedCountries(S) ==
    LET Member(c) == c \in S
    IN  SelectSeq(CountryOrder, Member)

RECURSIVE SortedYears(_)
SortedYears(S) ==
    IF S = {} THEN <<>>
    ELSE LET least == CHOOSE y \in S : \A z \in S : y <= z
         IN  <<least>> \o SortedYears(S \ {least})

\* Mutant of GroupMean: the group's sum (aggfunc='sum').
GroupMean_Sum(group) == SumSeq(MapSeq(LAMBDA row : row.inflation, group))

\* aggfunc='mean' over the records of one (country, year) group.
GroupMean(group) ==
    RDiv(SumSeq(MapSeq(LAMBDA row : row.inflation, group)), Num(Len(group)))

\* DataFrame.pivot_table(values='inflation', index='country', columns='year',
\* aggfunc='mean'): sorted distinct countries by sorted distinct years, a
\* cell being the mean of its group, or NaN (None) for an empty group.
pivot_table(df) ==
    LET index == SortedCountries({df[i].country : i \in 1..Len(df)})
        columns == SortedYears({df[i].year : i \in 1..Len(df)})
        Cell(c, y) ==
            LET InGroup(row) == row.country = c /\ row.year = y
                group == SelectSeq(df, InGroup)
            IN  IF Len(group) = 0 THEN None ELSE Some(GroupMean(group))
    IN  [index |-> index, columns |-> columns,
         values |-> Tabulate(Len(index), LAMBDA i :
                        Tabulate(Len(columns), LAMBDA j : Cell(index[i], columns[j])))]

\* fillna(method='ffill') with the default axis=0: down each column, a NaN
\* takes the last valid value of the rows above it.
RECURSIVE FFillCell(_, _, _)
FFillCell(values, i, j) ==
    IF ~IsNone(values[i][j]) \/ i = 1 THEN values[i][j]
    ELSE FFillCell(values, i - 1, j)

\* fillna(method='bfill') with the default axis=0: up each column.
RECURSIVE BFillCell(_, _, _)
BFillCell(values, i, j) ==
    IF ~IsNone(values[i][j]) \/ i = Len(values) THEN values[i][j]
    ELSE BFillCell(values, i + 1, j)

FillCells(m, Fill(_, _, _)) ==
    [index |-> m.index, columns |-> m.columns,
     values |-> Tabulate(Len(m.index), LAMBDA i :
                    Tabulate(Len(m.columns), LAMBDA j : Fill(m.values, i, j)))]

ffill(m) == FillCells(m, FFillCell)
bfill(m) == FillCells(m, BFillCell)
fillna_zero(m) ==
    FillCells(m, LAMBDA values, i, j :
                    IF IsNone(values[i][j]) THEN Some(Num(0)) ELSE values[i][j])

\* pivot_data.index.isin(COUNTRY_COORDS.keys())
KeepsRow(country) == country \in DOMAIN COUNTRY_COORDS

\* pivot_data[pivot_data.index.isin(COUNTRY_COORDS.keys())]
only_with_coordinates(m) ==
    LET kept == {i \in 1..Len(m.index) : KeepsRow(m.index[i])}
        Kept(c) == \E i \in kept : m.index[i] = c
        position == [c \in Range(m.index) |-> CHOOSE i \in 1..Len(m.index) : m.index[i] = c]
        index == SelectSeq(m.index, Kept)
    IN  [index |-> index, columns |-> m.columns,
         values |-> Tabulate(Len(index), LAMBDA i : m.values[position[index[i]]])]

\* The matrix construction shared by cluster_countries and
\* find_similar_countries.
trajectory_matrix(inflation_data) ==
    only_with_coordinates(fillna_zero(bfill(ffill(pivot_table(inflation_data)))))

(***************************************************************************)
(* cluster_countries                                                       *)
(***************************************************************************)
Column(values, j) == Tabulate(Len(values), LAMBDA i : The(values[i][j]))
Mean(xs) == RDiv(SumSeq(xs), Num(Len(xs)))
SquaredDeviations(xs, mu) == MapSeq(LAMBDA x : RMul(RSub(x, mu), RSub(x, mu)), xs)
Variance(xs) == Mean(SquaredDeviations(xs, Mean(xs)))

\* StandardScaler().fit: the mean and the variance of every year column.
ColumnStats(values, n_columns) ==
    Tabulate(n_columns, LAMBDA j :
        [mean |-> Mean(Column(values, j)), variance |-> Variance(Column(values, j))])

ScaleWith(values, stats) ==
    Tabulate(Len(values), LAMBDA i :
        Tabulate(Len(values[i]), LAMBDA j :
            [centered |-> RSub(The(values[i][j]), stats[j].mean),
             variance |-> stats[j].variance]))

\* StandardScaler().fit_transform(pivot_data): per year column, subtract the
\* column mean and divide by the column's standard deviation (by 1 for a
\* constant column).  A scaled cell is kept as the pair of its centred value
\* and the column variance; the number it denotes is centered / sqrt(variance).
StandardScaler_fit_transform(pivot_data) ==
    ScaleWith(pivot_data.values, ColumnStats(pivot_data.values, Len(pivot_data.columns)))

\* Mutant of RandomState: KMeans is left unseeded.
RandomState_Unset == None

\* KMeans(..., random_state=42, ...)
RandomState == Some(42)

\* KMeans(n_clusters, random_state, n_init=10).fit_predict(scaled_data): one
\* label in 0..n_clusters-1 per row.  Which labels k-means finds is left open;
\* what is kept of the library is that a seeded fit is a function of its
\* inputs: a fit with the inputs of the fit before it gives the same labels.
fit_predict(scaled_data, n_clusters, random_state) ==
    IF /\ ~IsNone(random_state)
       /\ ~IsNone(kmeans_fitted)
       /\ The(kmeans_fitted).scaled_data = scaled_data
       /\ The(kmeans_fitted).n_clusters = n_clusters
       /\ The(kmeans_fitted).random_state = random_state
    THEN {The(kmeans_fitted).labels}
    ELSE [1..Len(scaled_data) -> 0..(n_clusters - 1)]

\* {country: int(cluster) for country, cluster in zip(index, clusters)}
ZipDict(index, clusters) ==
    LET n == IF Len(index) < Len(clusters) THEN Len(index) ELSE Len(clusters)
        Last(c) == CHOOSE i \in 1..n : index[i] = c /\ \A k \in (i + 1)..n : index[k] # c
    IN  [c \in {index[i] : i \in 1..n} |-> clusters[Last(c)]]

\* Mutant of TooFewRows: as many rows as clusters is refused too.
TooFewRows_OrEqual(pivot_data, n_clusters) == Len(pivot_data.index) <= n_clusters

\* if len(pivot_data) < n_clusters: return None
TooFewRows(pivot_data, n_clusters) == Len(pivot_data.index) < n_clusters

\* cluster_countries from "Standardize the data" on.
ClusterRows(pivot_data, scaled_data, n_clusters) ==
    \E clusters \in fit_predict(scaled_data, n_clusters, RandomState) :
        /\ kmeans_fitted' = Some([scaled_data |-> scaled_data,
                                  n_clusters |-> n_clusters,
                                  random_state |-> RandomState,
                                  labels |-> clusters])
        /\ cluster_call' =
              Some([n_clusters |-> n_clusters, pivot_data |-> pivot_data,
                    ret |-> Some([cluster_map |-> ZipDict(pivot_data.index, clusters),
                                  pivot_data |-> pivot_data])])

\* cluster_countries once pivot_data is built.
ClusterPivoted(pivot_data, n_clusters) ==
    IF TooFewRows(pivot_data, n_clusters)
    THEN /\ cluster_call' = Some([n_clusters |-> n_clusters,
                                  pivot_data |-> pivot_data, ret |-> None])
         /\ UNCHANGED kmeans_fitted
    ELSE ClusterRows(pivot_data, StandardScaler_fit_transform(pivot_data),
                     n_clusters)

\* cluster_countries as a step: it leaves the call's argument, its local
\* pivot_data and its return value in cluster_call.
cluster_countries(inflation_data, n_clusters) ==
    ClusterPivoted(trajectory_matrix(inflation_data), n_clusters)

ClusterCounts == {1, 2, 3}
PivotRates == {Num(1), Num(4)}
PivotTables ==
    SeqsUpTo(Records({"A", "C"}, {2020, 2021}, PivotRates)
                 \cup Records({"B"}, {2020, 2021}, {Num(4)}),
             MaxPivotRows)

InitCluster ==
    /\ inflation_df \in PivotTables
    /\ map_call = None
    /\ calc_call = None
    /\ cluster_call = None
    /\ last_cluster = None
    /\ kmeans_fitted = None
    /\ similar_call = None
    /\ insights_call = None
    /\ pc = "running"
    /\ fetch_ret = Some(inflation_df)
    /\ st_error = None
    /\ fetch_loop = None
    /\ map_view = None
    /\ calc_view = None

\* The "show clusters" toggle: one call per run of the script.
CallClusterCountries ==
    /\ pc = "running"
    /\ NoCallYet
    /\ \E n_clusters \in ClusterCounts : cluster_countries(inflation_df, n_clusters)
    /\ UNCHANGED <<inflation_df, map_call, calc_call, last_cluster,
                   similar_call, insights_call, pc, fetch_ret, st_error,
                   fetch_loop, map_view, calc_view>>

NextCluster == CallClusterCountries \/ Rerun

SpecCluster == InitCluster /\ [][NextCluster]_vars

(***************************************************************************)
(* find_similar_countries                                                  *)
(***************************************************************************)
\* One row of pivot_data as a vector of numbers.
RowVector(values, i) == Tabulate(Len(values[i]), LAMBDA j : The(values[i][j]))

DotProduct(a, b) == SumSeq(Tabulate(Len(a), LAMBDA j : RMul(a[j], b[j])))

\* One cell of sklearn's cosine_similarity(pivot_data): the rows are
\* normalised (a row of norm 0 is left as it is) and multiplied, so the cell
\* is dot / (|a| |b|), and 0 when either row is all zero.  The cell is kept
\* as sign(dot) * dot^2 / (|a|^2 |b|^2), the signed square of that number:
\* squaring keeps sign, order and equality of numbers in [-1, 1], and that is
\* all the ranking uses.
cosine_similarity(a, b) ==
    LET dot == DotProduct(a, b)
        norms == RMul(DotProduct(a, a), DotProduct(b, b))
    IN  IF norms[1] = 0 THEN Num(0)
        ELSE IF dot[1] < 0 THEN RSub(Num(0), RDiv(RMul(dot, dot), norms))
        ELSE RDiv(RMul(dot, dot), norms)

\* similarity_df[target_country]: every row's country with its similarity to
\* the target's row, in index order.
SimilarityColumn(pivot_data, target_country) ==
    LET t == CHOOSE i \in 1..Len(pivot_data.index) : pivot_data.index[i] = target_country
        target_row == RowVector(pivot_data.values, t)
    IN  Tabulate(Len(pivot_data.index), LAMBDA i :
            [country |-> pivot_data.index[i],
             score |-> cosine_similarity(RowVector(pivot_data.values, i), target_row)])

IsSortedByScoreDescending(s) ==
    \A i \in 1..(Len(s) - 1) : RLeq(s[i + 1].score, s[i].score)

\* Series.sort_values(ascending=False): the entries in descending score order.
\* The default sort is not stable and no second key is given, so entries of
\* equal score may come out in any order: the result is one of these.
sort_values_descending(s) ==
    {t \in {[i \in 1..Len(s) |-> s[f[i]]] : f \in Permutations(1..Len(s))} :
        IsSortedByScoreDescending(t)}

\* sorted[1:top_n + 1]
SliceTop(sorted, top_n) ==
    SubSeq(sorted, 2, IF Len(sorted) < top_n + 1 THEN Len(sorted) ELSE top_n + 1)

\* Mutant of TargetMissing: a target that is the matrix's only row is
\* reported as not found too.
TargetMissing_OrAlone(target_country, pivot_data) ==
    target_country \notin Range(pivot_data.index) \/ Len(pivot_data.index) = 1

\* if target_country not in pivot_data.index: return None
TargetMissing(target_country, pivot_data) ==
    target_country \notin Range(pivot_data.index)

\* find_similar_countries once pivot_data is built: the results it can return.
SimilarPivoted(target_country, pivot_data, top_n) ==
    IF TargetMissing(target_country, pivot_data) THEN {None}
    ELSE {Some(SliceTop(sorted, top_n)) :
            sorted \in sort_values_descending(
                           SimilarityColumn(pivot_data, target_country))}

\* The results find_similar_countries can return.
find_similar_countries(target_country, inflation_data, top_n) ==
    SimilarPivoted(target_country, trajectory_matrix(inflation_data), top_n)

SimilarRates == {Num(0), Num(1)}
TopNs == {1, 2}
SimilarTables ==
    SeqsUpTo(Records({"A", "C"}, {2020, 2021}, SimilarRates)
                 \cup Records({"D"}, {2020}, SimilarRates)
                 \cup Records({"B"}, {2020}, {Num(1)}),
             MaxSimRows)

InitSimilar ==
    /\ inflation_df \in SimilarTables
    /\ map_call = None
    /\ calc_call = None
    /\ cluster_call = None
    /\ last_cluster = None
    /\ kmeans_fitted = None
    /\ similar_call = None
    /\ insights_call = None
    /\ pc = "running"
    /\ fetch_ret = Some(inflation_df)
    /\ st_error = None
    /\ fetch_loop = None
    /\ map_view = None
    /\ calc_view = None

\* The country comparison panel: one call per run of the script.
CallFindSimilarCountries ==
    /\ pc = "running"
    /\ NoCallYet
    /\ \E target_country \in {"A", "B", "C", "D"}, top_n \in TopNs :
        \E ret \in find_similar_countries(target_country, inflation_df, top_n) :
            similar_call' = Some([target_country |-> target_country,
                                  top_n |-> top_n,
                                  pivot_data |-> trajectory_matrix(inflation_df),
                                  ret |-> ret])
    /\ UNCHANGED <<inflation_df, map_call, calc_call, cluster_call, last_cluster,
                   kmeans_fitted, insights_call, pc, fetch_ret, st_error,
                   fetch_loop, map_view, calc_view>>

NextSimilar == CallFindSimilarCountries \/ Rerun

SpecSimilar == InitSimilar /\ [][NextSimilar]_vars

(***************************************************************************)
(* generate_insights                                                       *)
(***************************************************************************)
\* Series.mean(): NaN (None) for a series with no value.
SeriesMean(xs) == IF Len(xs) = 0 THEN None ELSE Some(Mean(xs))

\* f"{x:.2f}": the text of x rounded to two decimals, half to even.  The text
\* is kept as the number of hundredths it shows; None is the text "nan".
FormatFixed2(x) ==
    IF IsNone(x) THEN None
    ELSE LET n == (2 * 100 * The(x)[1]) + The(x)[2]
             d == 2 * The(x)[2]
             q == n \div d
         IN  Some(IF n % d = 0 /\ q % 2 = 1 THEN q - 1 ELSE q)

InflationOf(rows) == MapSeq(LAMBDA row : row.inflation, rows)

\* "Regional insight": if selected_regions, the mean of map_data['inflation'].
RegionalInsight(map_data, selected_year, selected_regions) ==
    IF selected_regions = {} THEN <<>>
    ELSE <<[kind |-> "Regional Analysis", year |-> selected_year,
            figure |-> FormatFixed2(SeriesMean(InflationOf(map_data)))]>>

\* The keys of region_inflations in insertion order: the regions of the rows
\* of map_data in order of first appearance; a row without region adds none.
RECURSIVE RegionKeys(_, _)
RegionKeys(map_data, i) ==
    IF i = 0 THEN <<>>
    ELSE LET before == RegionKeys(map_data, i - 1)
             region == RegionGet(map_data[i].country)
         IN  IF IsNone(region) \/ The(region) \in Range(before) THEN before
             ELSE Append(before, The(region))

\* region_avgs: sum(v) / len(v) for every key of region_inflations.
RegionAvgs(map_data, keys) ==
    [r \in Range(keys) |->
        LET InRegion(row) == RegionGet(row.country) = Some(r)
        IN  Mean(InflationOf(SelectSeq(map_data, InRegion)))]

\* Mutant of HighestRegion: the region of the lowest average is reported.
HighestRegion_Lowest(keys, region_avgs) ==
    keys[CHOOSE i \in 1..Len(keys) :
            /\ \A j \in 1..(i - 1) : RLess(region_avgs[keys[i]], region_avgs[keys[j]])
            /\ \A j \in (i + 1)..Len(keys) : RLeq(region_avgs[keys[i]], region_avgs[keys[j]])]

\* max(region_avgs, key=region_avgs.get): the first key, in insertion order,
\* whose average no other key exceeds.
HighestRegion(keys, region_avgs) ==
    keys[CHOOSE i \in 1..Len(keys) :
            /\ \A j \in 1..(i - 1) : RLess(region_avgs[keys[j]], region_avgs[keys[i]])
            /\ \A j \in (i + 1)..Len(keys) : RLeq(region_avgs[keys[j]], region_avgs[keys[i]])]

HighestOfKeys(keys, region_avgs, selected_year) ==
    IF Len(keys) = 0 THEN <<>>
    ELSE <<[kind |-> "Geographic Pattern",
            region |-> HighestRegion(keys, region_avgs),
            figure |-> FormatFixed2(Some(region_avgs[HighestRegion(keys, region_avgs)])),
            year |-> selected_year]>>

\* "Highest region": if len(map_data) > 0 and some row has a region.
HighestRegionInsight(map_data, selected_year) ==
    IF Len(map_data) = 0 THEN <<>>
    ELSE HighestOfKeys(RegionKeys(map_data, Len(map_data)),
                       RegionAvgs(map_data, RegionKeys(map_data, Len(map_data))),
                       selected_year)

\* Mutant of RecentWindow: the last two values, however long the series is.
RecentWindow_LastTwo(xs) ==
    SubSeq(xs, IF Len(xs) < 2 THEN 1 ELSE Len(xs) - 1, Len(xs))

\* country_data['inflation'].iloc[-3:] if len >= 3 else .iloc[-2:]
RecentWindow(xs) ==
    IF Len(xs) >= 3 THEN SubSeq(xs, Len(xs) - 2, Len(xs))
    ELSE SubSeq(xs, IF Len(xs) < 2 THEN 1 ELSE Len(xs) - 1, Len(xs))

\* country_data['inflation'].iloc[:3] if len >= 3 else .iloc[:2]
EarlierWindow(xs) ==
    IF Len(xs) >= 3 THEN SubSeq(xs, 1, 3)
    ELSE SubSeq(xs, 1, IF Len(xs) < 2 THEN Len(xs) ELSE 2)

\* Mutant of TrendWord: a difference of exactly 1 point counts as a change.
TrendWord_AtLeast(recent_trend, earlier_trend) ==
    IF RLeq(RAdd(earlier_trend, Num(1)), recent_trend) THEN "increased"
    ELSE IF RLeq(recent_trend, RSub(earlier_trend, Num(1))) THEN "decreased"
    ELSE "remained relatively stable"

\* if recent_trend > earlier_trend + 1 ... elif recent_trend < earlier_trend - 1
TrendWord(recent_trend, earlier_trend) ==
    IF RLess(RAdd(earlier_trend, Num(1)), recent_trend) THEN "increased"
    ELSE IF RLess(recent_trend, RSub(earlier_trend, Num(1))) THEN "decreased"
    ELSE "remained relatively stable"

\* The trend check once country_data is selected and sorted.
TrendOfSorted(country_data, selected_country) ==
    IF Len(country_data) < 2 THEN <<>>
    ELSE <<[kind |-> "Trend Alert", country |-> selected_country,
            trend_word |-> TrendWord(Mean(RecentWindow(InflationOf(country_data))),
                                     Mean(EarlierWindow(InflationOf(country_data))))]>>

\* "Trend insight for selected country": what it can contribute; the sort by
\* year leaves the order of same-year rows open.
TrendInsight(inflation_data, selected_country) ==
    IF IsNone(selected_country) THEN {<<>>}
    ELSE LET OfCountry(row) == row.country = The(selected_country)
         IN  {TrendOfSorted(country_data, The(selected_country)) :
                 country_data \in sort_values_year(SelectSeq(inflation_data, OfCountry))}

\* Mutant of IsHighInflation: a rate of exactly 10 is counted as well.
IsHighInflation_AtLeast(row) == RLeq(Num(10), row.inflation)

\* map_data['inflation'] > 10
IsHighInflation(row) == RLess(Num(10), row.inflation)

\* "Risk alert - High inflation"
HighInflationAlert(map_data, selected_year) ==
    LET high_inflation_count == Len(SelectSeq(map_data, IsHighInflation))
    IN  IF high_inflation_count > 0
        THEN <<[kind |-> "High Inflation Alert", count |-> high_inflation_count,
                year |-> selected_year]>>
        ELSE <<>>

\* map_data['inflation'] < 0
IsDeflation(row) == RLess(row.inflation, Num(0))

\* "Risk alert - Deflation"
DeflationAlert(map_data, selected_year) ==
    LET deflation_count == Len(SelectSeq(map_data, IsDeflation))
    IN  IF deflation_count > 0
        THEN <<[kind |-> "Deflation Alert", count |-> deflation_count,
                year |-> selected_year]>>
        ELSE <<>>

\* Mutant of InsightsFrom: without a regional statement the high-inflation
\* alert is not appended.
InsightsFrom_AlertNeedsRegional(regional, highest, trend, high, deflation) ==
    regional \o highest \o trend \o (IF Len(regional) = 0 THEN <<>> ELSE high)
        \o deflation

\* insights: the statements in the order of the insights.append calls.
InsightsFrom(regional, highest, trend, high, deflation) ==
    regional \o highest \o trend \o high \o deflation

\* The lists generate_insights can return.
generate_insights(map_data, inflation_data, selected_year, selected_regions, selected_country) ==
    {InsightsFrom(RegionalInsight(map_data, selected_year, selected_regions),
                  HighestRegionInsight(map_data, selected_year),
                  trend,
                  HighInflationAlert(map_data, selected_year),
                  DeflationAlert(map_data, selected_year)) :
        trend \in TrendInsight(inflation_data, selected_country)}

\* main: filtered_inflation_df, the table restricted to the selected regions
\* (the whole table when no region is selected).
filtered_inflation_df(df, selected_regions) ==
    IF selected_regions = {} THEN df
    ELSE LET InRegions(row) ==
                 /\ ~IsNone(RegionGet(row.country))
                 /\ The(RegionGet(row.country)) \in selected_regions
         IN  SelectSeq(df, InRegions)

\* Tables for the trend check: records of one country over two years, with
\* rates 3 points apart (-1 and 2) and further apart.
TrendTables ==
    SeqsUpTo(Records({"A"}, {2020}, {Num(-1), Num(11)})
                 \cup Records({"A"}, {2021}, {Num(2), Num(11)}),
             MaxTrendRows)

\* Tables for the checks on map rows: countries of two regions in one year,
\* with rates below 0, at 10 and above 10.
InsightMapTables ==
    SeqsUpTo(Records({"A"}, {2020}, {Num(10), Num(11)})
                 \cup Records({"C", "D"}, {2020}, {Num(-1), Num(11)}),
             MaxInsightMapRows)

InsightTables == TrendTables \cup InsightMapTables

InitInsights ==
    /\ inflation_df \in InsightTables
    /\ map_call = None
    /\ calc_call = None
    /\ cluster_call = None
    /\ last_cluster = None
    /\ kmeans_fitted = None
    /\ similar_call = None
    /\ insights_call = None
    /\ pc = "running"
    /\ fetch_ret = Some(inflation_df)
    /\ st_error = None
    /\ fetch_loop = None
    /\ map_view = None
    /\ calc_view = None

\* generate_insights on its arguments as a step: the call and what it
\* returned are left in insights_call.
InsightsOf(map_data, inflation_data, selected_year, selected_regions, selected_country) ==
    \E ret \in generate_insights(map_data, inflation_data, selected_year,
                                 selected_regions, selected_country) :
        insights_call' = Some([map_data |-> map_data,
                               inflation_df |-> inflation_data,
                               selected_year |-> selected_year,
                               selected_regions |-> selected_regions,
                               selected_country |-> selected_country,
                               ret |-> ret])

\* "Show insights": one call per run of the script, on the region-filtered
\* table and the map rows computed from it.
InsightsOfFiltered(filtered, selected_year, selected_regions, selected_country) ==
    InsightsOf(prepare_map_data(filtered, selected_year), filtered,
               selected_year, selected_regions, selected_country)

CallGenerateInsights ==
    /\ pc = "running"
    /\ NoCallYet
    /\ \E selected_year \in {2020, 2021},
          selected_regions \in SUBSET {"Europe", "Asia"},
          selected_country \in {None, Some("A")} :
        InsightsOfFiltered(filtered_inflation_df(inflation_df, selected_regions),
                           selected_year, selected_regions, selected_country)
    /\ UNCHANGED <<inflation_df, map_call, calc_call, cluster_call, last_cluster,
                   kmeans_fitted, similar_call, pc, fetch_ret, st_error,
                   fetch_loop, map_view, calc_view>>

NextInsights == CallGenerateInsights \/ Rerun

SpecInsights == InitInsights /\ [][NextInsights]_vars

(***************************************************************************)
(* The main script: fetch, guard, and the analytic calls of one run        *)
(***************************************************************************)
\* What fetch_inflation_data can return: None (a failed request, or no
\* record with a value) or a table with at least one record.
MainTables ==
    {<<Record("A", 2020, Num(1)), Record("C", 2020, Num(4))>>,
     <<Record("A", 2020, Num(11)), Record("A", 2021, Num(-1)),
       Record("B", 2020, Num(4))>>}

fetch_inflation_data == {None} \cup {Some(t) : t \in MainTables}

InitMain ==
    /\ inflation_df = <<>>
    /\ map_call = None
    /\ calc_call = None
    /\ cluster_call = None
    /\ last_cluster = None
    /\ kmeans_fitted = None
    /\ similar_call = None
    /\ insights_call = None
    /\ pc = "fetch"
    /\ fetch_ret = None
    /\ st_error = None
    /\ fetch_loop = None
    /\ map_view = None
    /\ calc_view = None

\* inflation_df = fetch_inflation_data()
FetchInflationData ==
    /\ pc = "fetch"
    /\ fetch_ret' \in fetch_inflation_data
    /\ pc' = "guard"
    /\ UNCHANGED <<inflation_df, map_call, calc_call, cluster_call, last_cluster,
                   kmeans_fitted, similar_call, insights_call, st_error,
                   fetch_loop, map_view, calc_view>>

\* Mutant of ShouldStop: only an empty table stops the script.
ShouldStop_OnlyEmpty(ret) == ~IsNone(ret) /\ Len(The(ret)) = 0

\* if inflation_df is None or inflation_df.empty
ShouldStop(ret) == IsNone(ret) \/ Len(The(ret)) = 0

\* available_years[0] and the lines after it need a table with a record:
\* without one the script ends in an uncaught exception.
UsableTable(ret) == ~IsNone(ret) /\ Len(The(ret)) > 0

\* The guard after the fetch: st.error and st.stop(), or on to the rest of
\* the script with the fetched table.
Guard ==
    /\ pc = "guard"
    /\ IF ShouldStop(fetch_ret)
       THEN /\ st_error' = Some("Unable to fetch inflation data. Please try again later.")
            /\ pc' = "stopped"
            /\ UNCHANGED inflation_df
       ELSE /\ pc' = IF UsableTable(fetch_ret) THEN "running" ELSE "crashed"
            /\ inflation_df' = IF UsableTable(fetch_ret) THEN The(fetch_ret)
                               ELSE inflation_df
            /\ UNCHANGED st_error
    /\ UNCHANGED <<map_call, calc_call, cluster_call, last_cluster, kmeans_fitted,
                   similar_call, insights_call, fetch_ret,
                   fetch_loop, map_view, calc_view>>

\* A rerun of the script that fetches again: after a run that stopped, or
\* when the cached table has expired (ttl=3600).
RerunFromTop ==
    /\ pc \in {"running", "stopped", "crashed"}
    /\ pc' = "fetch"
    /\ fetch_ret' = None
    /\ st_error' = None
    /\ fetch_loop' = None
    /\ map_view' = None
    /\ calc_view' = None
    /\ inflation_df' = <<>>
    /\ map_call' = None
    /\ calc_call' = None
    /\ cluster_call' = None
    /\ similar_call' = None
    /\ insights_call' = None
    /\ last_cluster' = IF IsNone(cluster_call) THEN last_cluster ELSE cluster_call
    /\ UNCHANGED kmeans_fitted

NextMain ==
    \/ FetchInflationData
    \/ Guard
    \/ CallPrepareMapData
    \/ CallGenerateInsights
    \/ CallCalculateAdjustedValue
    \/ CallClusterCountries
    \/ CallFindSimilarCountries
    \/ Rerun
    \/ RerunFromTop

SpecMain == InitMain /\ [][NextMain]_vars

(***************************************************************************)
(* fetch_inflation_data: the pagination loop                               *)
(***************************************************************************)
\* One item of data[1]: item['country']['value'], item['date'] (a text) and
\* item['value'] (a number or null).
Item(country, date, value) == [country |-> country, date |-> date, value |-> value]

\* int(item['date']): the year a date text denotes; None where int() raises
\* ValueError.
IntOfDate(date) ==
    CASE date = "2020" -> Some(2020)
      [] date = "2021" -> Some(2021)
      [] OTHER -> None

\* The data[1] lists the API is modelled to answer with: one item with a
\* value; a null item followed by one with a value; an item whose date is
\* not a year.
PagePayloads ==
    {<<Item("A", "2020", Some(Num(5)))>>,
     <<Item("A", "2021", None), Item("C", "2021", Some(Num(8)))>>,
     <<Item("C", "2020Q1", Some(Num(4)))>>}

\* metadata.get('pages'): absent, or a page count.
PageCounts == {None} \cup {Some(n) : n \in 0..MaxPages}

\* What one requests.get can bring:
\*   "network"      requests.get raises (connection error, timeout)
\*   "http"         raise_for_status raises (4xx/5xx)
\*   "invalid_json" response.json() raises
\*   "short"        a JSON body with fewer than 2 elements (the API's error
\*                  message body)
\*   "empty"        [metadata, null] or [metadata, []]
\*   "page"         [metadata, items]
Responses ==
    {[kind |-> k, pages |-> None, items |-> <<>>] :
        k \in {"network", "http", "invalid_json", "short"}}
    \cup {[kind |-> "empty", pages |-> p, items |-> <<>>] : p \in PageCounts}
    \cup {[kind |-> "page", pages |-> p, items |-> items] :
            p \in PageCounts, items \in PagePayloads}

\* if len(data) < 2 or not data[1]: break
EndsData(response) == response.kind \in {"short", "empty"}

\* The "for item in data[1]" loop from item i on: the records appended to
\* acc, or None when int(item['date']) raises.
RECURSIVE ExtractFrom(_, _, _)
ExtractFrom(items, i, acc) ==
    IF i > Len(items) THEN Some(acc)
    ELSE IF IsNone(items[i].value) THEN ExtractFrom(items, i + 1, acc)
    ELSE IF IsNone(IntOfDate(items[i].date)) THEN None
    ELSE ExtractFrom(items, i + 1,
             Append(acc, Record(items[i].country, The(IntOfDate(items[i].date)),
                                The(items[i].value))))

\* The request, raise_for_status, json() or the item loop raises: the
\* except clauses return None.
Raises(response, all_records) ==
    \/ response.kind \in {"network", "http", "invalid_json"}
    \/ response.kind = "page" /\ IsNone(ExtractFrom(response.items, 1, all_records))

\* total_pages = metadata.get('pages', 1)
TotalPages(response) == IF IsNone(response.pages) THEN 1 ELSE The(response.pages)

\* Mutant of LastPage: the loop goes one page past the reported count.
LastPage_OnePast(page, total_pages) == page > total_pages

\* if page >= total_pages: break
LastPage(page, total_pages) == page >= total_pages

\* After the loop: None for no record, else pd.DataFrame(all_records).
TableOf(all_records) == IF Len(all_records) = 0 THEN None ELSE Some(all_records)

InitFetch ==
    /\ inflation_df = <<>>
    /\ map_call = None
    /\ calc_call = None
    /\ cluster_call = None
    /\ last_cluster = None
    /\ kmeans_fitted = None
    /\ similar_call = None
    /\ insights_call = None
    /\ pc = "fetch"
    /\ fetch_ret = None
    /\ st_error = None
    /\ fetch_loop = None
    /\ map_view = None
    /\ calc_view = None

\* fetch_inflation_data up to the loop: all_records = [], page = 1.
BeginFetch ==
    /\ pc = "fetch"
    /\ IsNone(fetch_loop)
    /\ fetch_loop' = Some([page |-> 1, all_records |-> <<>>,
                           requests |-> <<>>, responses |-> <<>>])
    /\ pc' = "request"
    /\ UNCHANGED <<inflation_df, map_call, calc_call, cluster_call, last_cluster,
                   kmeans_fitted, similar_call, insights_call, fetch_ret, st_error,
                   map_view, calc_view>>

\* fetch_inflation_data returns ret to the main script.
ReturnFromFetch(ret, loop) ==
    /\ fetch_ret' = ret
    /\ fetch_loop' = Some(loop)
    /\ pc' = "guard"

\* One pass of the while loop on the response received, and the return when
\* the loop ends with it.
HandleResponse(loop, response) ==
    IF Raises(response, loop.all_records) THEN ReturnFromFetch(None, loop)
    ELSE IF EndsData(response) THEN ReturnFromFetch(TableOf(loop.all_records), loop)
    ELSE IF LastPage(loop.page, TotalPages(response))
    THEN ReturnFromFetch(
             TableOf(The(ExtractFrom(response.items, 1, loop.all_records))),
             [loop EXCEPT !.all_records = The(ExtractFrom(response.items, 1, @))])
    ELSE /\ fetch_loop' =
               Some([loop EXCEPT !.all_records = The(ExtractFrom(response.items, 1, @)),
                                 !.page = @ + 1])
         /\ UNCHANGED <<pc, fetch_ret>>

\* requests.get(url, params={..., 'page': page}) and the rest of the pass.
RequestPage ==
    /\ pc = "request"
    /\ \E response \in Responses :
        HandleResponse([The(fetch_loop) EXCEPT
                            !.requests = Append(@, The(fetch_loop).page),
                            !.responses = Append(@, response)],
                       response)
    /\ UNCHANGED <<inflation_df, map_call, calc_call, cluster_call, last_cluster,
                   kmeans_fitted, similar_call, insights_call, st_error,
                   map_view, calc_view>>

NextFetch == BeginFetch \/ RequestPage

SpecFetch == InitFetch /\ [][NextFetch]_vars

(***************************************************************************)
(* The main script: the map tab                                            *)
(***************************************************************************)
\* cluster_colors and the fallback of cluster_colors.get(x, ...)
GreyColor == <<128, 128, 128, 220>>

\* Mutant of cluster_colors: the entry of cluster 3 is missing.
cluster_colors_NoYellow ==
    [id \in 0..2 |->
        IF id = 0 THEN <<255, 100, 100, 220>>
        ELSE IF id = 1 THEN <<100, 255, 100, 220>>
        ELSE <<100, 100, 255, 220>>]

cluster_colors ==
    [id \in 0..3 |->
        IF id = 0 THEN <<255, 100, 100, 220>>
        ELSE IF id = 1 THEN <<100, 255, 100, 220>>
        ELSE IF id = 2 THEN <<100, 100, 255, 220>>
        ELSE <<255, 255, 100, 220>>]

MagentaColor == <<255, 0, 150, 255>>
CyanColor == <<0, 255, 255, 255>>
BrightYellowColor == <<255, 255, 0, 255>>

\* cluster_countries(filtered_inflation_df, n_clusters=4)
MapClusterCount == 4

\* map_data.copy(): a displayed row.  cluster is the 'cluster' column, None
\* where the column is absent or holds NaN.
DisplayRow(row) ==
    [country |-> row.country, inflation |-> row.inflation, color |-> row.color,
     cluster |-> None]

\* map_data_display['country'].map(cluster_map) and the colour of the
\* cluster: grey for a country without cluster or a cluster without colour.
ClusterColored(row, cluster_map) ==
    IF row.country \notin DOMAIN cluster_map
    THEN [row EXCEPT !.color = GreyColor]
    ELSE [row EXCEPT !.cluster = Some(cluster_map[row.country]),
                     !.color = IF cluster_map[row.country] \in DOMAIN cluster_colors
                               THEN cluster_colors[cluster_map[row.country]]
                               ELSE GreyColor]

\* "Apply clustering if enabled": map_data_display before the highlighting.
clustered_display(map_data, show_clusters, cluster_result) ==
    IF show_clusters /\ ~IsNone(cluster_result)
    THEN MapSeq(LAMBDA row : ClusterColored(DisplayRow(row), The(cluster_result).cluster_map),
                map_data)
    ELSE MapSeq(DisplayRow, map_data)

\* "Highlight high inflation countries"
HighlightHigh(rows, highlight_high_inflation, high_inflation_threshold) ==
    MapSeq(LAMBDA row :
               IF highlight_high_inflation /\ RLess(high_inflation_threshold, row.inflation)
               THEN [row EXCEPT !.color = MagentaColor] ELSE row,
           rows)

\* "Highlight deflation countries"
HighlightDeflation(rows, highlight_deflation) ==
    MapSeq(LAMBDA row :
               IF highlight_deflation /\ RLess(row.inflation, Num(0))
               THEN [row EXCEPT !.color = CyanColor] ELSE row,
           rows)

\* "Highlight selected country if any"
HighlightSelected(rows, selected_country) ==
    MapSeq(LAMBDA row :
               IF ~IsNone(selected_country) /\ row.country = The(selected_country)
               THEN [row EXCEPT !.color = BrightYellowColor] ELSE row,
           rows)

\* Mutant of map_data_display: the selected country is highlighted first and
\* the risk highlighting is applied over it.
map_data_display_SelectedFirst(rows, toggles) ==
    HighlightDeflation(
        HighlightHigh(HighlightSelected(rows, toggles.selected_country),
                      toggles.highlight_high_inflation,
                      toggles.high_inflation_threshold),
        toggles.highlight_deflation)

\* map_data_display as the layer receives it: risk highlighting over the
\* clustered rows, then the selected country over both.
map_data_display(rows, toggles) ==
    HighlightSelected(
        HighlightDeflation(
            HighlightHigh(rows, toggles.highlight_high_inflation,
                          toggles.high_inflation_threshold),
            toggles.highlight_deflation),
        toggles.selected_country)

\* map_data['inflation'].idxmax() and idxmin() raise ValueError on a table
\* without rows.
SummaryRaises(map_data) == Len(map_data) = 0

\* available_years: the years of the fetched table.
available_years(df) == {df[i].year : i \in 1..Len(df)}

\* filtered_countries: the countries of the table that have coordinates,
\* restricted to the selected regions.
filtered_countries(df, selected_regions) ==
    {c \in {df[i].country : i \in 1..Len(df)} \cap DOMAIN COUNTRY_COORDS :
        selected_regions = {} \/ (~IsNone(RegionGet(c)) /\ The(RegionGet(c)) \in selected_regions)}

\* What the sidebar lets the user set.
Toggles(df) ==
    {[selected_regions |-> regions, selected_year |-> year,
      selected_country |-> country, show_clusters |-> clusters,
      highlight_high_inflation |-> high, high_inflation_threshold |-> threshold,
      highlight_deflation |-> deflation] :
        regions \in SUBSET {"Europe", "Asia"},
        year \in available_years(df),
        country \in {None} \cup {Some(c) : c \in DOMAIN COUNTRY_COORDS},
        clusters \in BOOLEAN, high \in BOOLEAN,
        threshold \in {Num(5), Num(10)}, deflation \in BOOLEAN}

\* The toggles the widgets can be in: the country is one of the select box's
\* options, and the threshold slider exists only with the highlight on
\* (otherwise the threshold keeps its initial 10.0).
ReachableToggles(df) ==
    {t \in Toggles(df) :
        /\ IsNone(t.selected_country)
              \/ The(t.selected_country) \in filtered_countries(df, t.selected_regions)
        /\ t.highlight_high_inflation \/ t.high_inflation_threshold = Num(10)}

MapTabTables ==
    {<<Record("A", 2020, Num(11)), Record("C", 2020, Num(-1)),
       Record("D", 2020, Num(-1)), Record("E", 2020, Num(3)),
       Record("B", 2020, Num(4))>>,
     <<Record("A", 2020, Num(10)), Record("C", 2021, Num(-1)),
       Record("D", 2020, Num(7)), Record("E", 2021, Num(5))>>,
     <<Record("A", 2020, Num(2)), Record("B", 2021, Num(4))>>}

InitMapTab ==
    /\ inflation_df \in MapTabTables
    /\ map_call = None
    /\ calc_call = None
    /\ cluster_call = None
    /\ last_cluster = None
    /\ kmeans_fitted = None
    /\ similar_call = None
    /\ insights_call = None
    /\ pc = "running"
    /\ fetch_ret = Some(inflation_df)
    /\ st_error = None
    /\ fetch_loop = None
    /\ map_view = None
    /\ calc_view = None

\* The map tab from map_data on, once the clustering step is done: the
\* displayed rows and the summary statistics, which end the run in an
\* exception when map_data has no row.
ShowMap(toggles, map_data, cluster_result) ==
    /\ map_call' = Some([year |-> toggles.selected_year, ret |-> map_data])
    /\ map_view' =
          Some([toggles |-> toggles, map_data |-> map_data,
                cluster_result |-> cluster_result,
                clustered |-> clustered_display(map_data, toggles.show_clusters,
                                                cluster_result),
                rows |-> map_data_display(
                             clustered_display(map_data, toggles.show_clusters,
                                               cluster_result),
                             toggles)])
    /\ pc' = IF SummaryRaises(map_data) THEN "crashed" ELSE "running"

\* The map tab on the region-filtered table.
MapTabOf(filtered, toggles) ==
    IF toggles.show_clusters
    THEN /\ cluster_countries(filtered, MapClusterCount)
         /\ ShowMap(toggles, prepare_map_data(filtered, toggles.selected_year),
                    The(cluster_call').ret)
    ELSE /\ UNCHANGED <<cluster_call, kmeans_fitted>>
         /\ ShowMap(toggles, prepare_map_data(filtered, toggles.selected_year), None)

\* One run of the script through the map tab.
RenderMapTab ==
    /\ pc = "running"
    /\ NoCallYet
    /\ IsNone(map_view)
    /\ \E toggles \in ReachableToggles(inflation_df) :
        MapTabOf(filtered_inflation_df(inflation_df, toggles.selected_regions), toggles)
    /\ UNCHANGED <<inflation_df, calc_call, last_cluster, similar_call, insights_call,
                   fetch_ret, st_error, fetch_loop, calc_view>>

NextMapTab == RenderMapTab

SpecMapTab == InitMapTab /\ [][NextMapTab]_vars

(***************************************************************************)
(* The main script: the calculator tab                                     *)
(***************************************************************************)
\* st.selectbox over an empty list of options returns None, which is the
\* country of no record.
NoCountry == "None"

\* options=filtered_countries of the calc_country select box.
CalcCountryOptions(df, selected_regions) ==
    IF filtered_countries(df, selected_regions) = {} THEN {NoCountry}
    ELSE filtered_countries(df, selected_regions)

\* st.number_input(min_value=0.0, value=1000.0, step=100.0)
CalcTabAmounts == {Num(0), Num(100), Num(1000)}

\* if calc_start_year >= calc_end_year: st.error(...)
OrderRefused(calc_start_year, calc_end_year) == calc_start_year >= calc_end_year

\* if result_df is not None and final_value is not None
HasResult(ret) == ~IsNone(ret.df) /\ ~IsNone(ret.final)

\* ((final_value - calc_amount) / calc_amount) * 100 on Python floats: a
\* divisor of 0.0 raises ZeroDivisionError.
DivisionRaises(calc_amount) == calc_amount[1] = 0

cumulative_inflation(final_value, calc_amount) ==
    RMul(RDiv(RSub(final_value, calc_amount), calc_amount), Num(100))

\* What the handler leaves on the page after calculate_adjusted_value
\* returned ret.
CalcOutcome(inputs, ret) ==
    IF ~HasResult(ret)
    THEN [inputs |-> inputs, outcome |-> "no_data", cumulative_inflation |-> None]
    ELSE IF DivisionRaises(inputs.calc_amount)
    THEN [inputs |-> inputs, outcome |-> "zero_division", cumulative_inflation |-> None]
    ELSE [inputs |-> inputs, outcome |-> "result",
          cumulative_inflation |->
              Some(cumulative_inflation(The(ret.final), inputs.calc_amount))]

CalcTabTables ==
    SeqsUpTo(Records({"A"}, Years, {Num(5)}) \cup Records({"C"}, {2020}, {Num(-2)}),
             MaxCalcRows)

InitCalcTab ==
    /\ inflation_df \in CalcTabTables
    /\ map_call = None
    /\ calc_call = None
    /\ cluster_call = None
    /\ last_cluster = None
    /\ kmeans_fitted = None
    /\ similar_call = None
    /\ insights_call = None
    /\ pc = "running"
    /\ fetch_ret = Some(inflation_df)
    /\ st_error = None
    /\ fetch_loop = None
    /\ map_view = None
    /\ calc_view = None

\* The else branch of the handler: the call and what follows it.
Calculate(inputs, filtered) ==
    \E ret \in calculate_adjusted_value(inputs.calc_country, inputs.calc_start_year,
                                        inputs.calc_end_year, inputs.calc_amount, filtered) :
        /\ calc_call' = Some([country |-> inputs.calc_country,
                              start_year |-> inputs.calc_start_year,
                              end_year |-> inputs.calc_end_year,
                              initial_amount |-> inputs.calc_amount, ret |-> ret])
        /\ calc_view' = Some(CalcOutcome(inputs, ret))
        /\ pc' = IF CalcOutcome(inputs, ret).outcome = "zero_division"
                 THEN "crashed" ELSE "running"

\* if st.button("Calculate"): the handler for one setting of the inputs.
CalculateHandler(inputs) ==
    IF OrderRefused(inputs.calc_start_year, inputs.calc_end_year)
    THEN /\ calc_view' = Some([inputs |-> inputs, outcome |-> "order_error",
                               cumulative_inflation |-> None])
         /\ UNCHANGED <<calc_call, pc>>
    ELSE Calculate(inputs, filtered_inflation_df(inflation_df, inputs.selected_regions))

\* One run of the script in which the Calculate button was pressed.
PressCalculate ==
    /\ pc = "running"
    /\ NoCallYet
    /\ IsNone(calc_view)
    /\ Len(inflation_df) > 0
    /\ \E selected_regions \in SUBSET {"Europe", "Asia"},
          calc_start_year \in available_years(inflation_df),
          calc_amount \in CalcTabAmounts :
        \E calc_country \in CalcCountryOptions(inflation_df, selected_regions),
           calc_end_year \in {y \in available_years(inflation_df) : y >= calc_start_year} :
            CalculateHandler([selected_regions |-> selected_regions,
                              calc_country |-> calc_country,
                              calc_amount |-> calc_amount,
                              calc_start_year |-> calc_start_year,
                              calc_end_year |-> calc_end_year])
    /\ UNCHANGED <<inflation_df, map_call, cluster_call, last_cluster, kmeans_fitted,
                   similar_call, insights_call, fetch_ret, st_error, fetch_loop, map_view>>

NextCalcTab == PressCalculate

SpecCalcTab == InitCalcTab /\ [][NextCalcTab]_vars

(***************************************************************************)
(* Claims about prepare_map_data                                           *)
(***************************************************************************)
MapRet == The(map_call).ret
MapYear == The(map_call).year
BaseOf(row) == Record(row.country, row.year, row.inflation)
Count(s, r) == Cardinality({i \in 1..Len(s) : s[i] = r})
Eligible(r, year) == r.year = year /\ r.country \in DOMAIN COUNTRY_COORDS

\* C1: for every table T and year y, prepare_map_data(T, y) contains no two
\* rows with the same country (T may hold several records for one
\* (country, year)).
C1_NoTwoRowsShareCountry ==
    ~IsNone(map_call) =>
        \A i, j \in 1..Len(MapRet) :
            i # j => MapRet[i].country # MapRet[j].country

\* C2: the rows returned by prepare_map_data(T, y) are exactly the records of
\* T whose year is y and whose country is a key of the coordinate table, each
\* as often as T holds it; nothing else appears, no eligible record is
\* missing, and a record of a country without coordinates is dropped silently.
C2_ExactlyEligibleRecords ==
    ~IsNone(map_call) =>
        LET returned == MapSeq(BaseOf, MapRet)
        IN  /\ \A r \in Range(inflation_df) \cup Range(returned) :
                    Count(returned, r) =
                        IF Eligible(r, MapYear) THEN Count(inflation_df, r) ELSE 0
            /\ \A i \in 1..Len(MapRet) :
                    /\ MapRet[i].lat = COUNTRY_COORDS[MapRet[i].country].lat
                    /\ MapRet[i].lon = COUNTRY_COORDS[MapRet[i].country].lon

\* C2 witness: a call that kept an eligible record and dropped, without
\* failing, a record of the same year whose country has no coordinates.
C2_Witness ==
    /\ ~IsNone(map_call)
    /\ Len(MapRet) = 1
    /\ \E i \in 1..Len(inflation_df) :
            /\ inflation_df[i].year = MapYear
            /\ inflation_df[i].country \notin DOMAIN COUNTRY_COORDS

\* The five bands as the claim states them.
InDeflationBand(x) == RLess(x, Num(0))
InLowBand(x) == RLeq(Num(0), x) /\ RLess(x, Num(2))
InModerateBand(x) == RLeq(Num(2), x) /\ RLess(x, Num(5))
InHighBand(x) == RLeq(Num(5), x) /\ RLess(x, Num(10))
InVeryHighBand(x) == RLeq(Num(10), x)
BandsOf(x) ==
    {b \in 1..5 :
        \/ b = 1 /\ InDeflationBand(x)
        \/ b = 2 /\ InLowBand(x)
        \/ b = 3 /\ InModerateBand(x)
        \/ b = 4 /\ InHighBand(x)
        \/ b = 5 /\ InVeryHighBand(x)}
BandColors == <<DeflationColor, LowColor, ModerateColor, HighColor, VeryHighColor>>

Calc == The(calc_call)
CalcPresent == ~IsNone(calc_call) /\ ~IsNone(Calc.ret.df)
Series == The(Calc.ret.df)
\* The records of the call's country inside the requested span.
InRange(r) ==
    r.country = Calc.country /\ Calc.start_year <= r.year /\ r.year <= Calc.end_year
Later(r) == InRange(r) /\ r.year # Calc.start_year
Factor(x) == RAdd(Num(1), RDiv(x, Num(100)))

ExampleTable ==
    <<Record("A", 2020, Num(5)), Record("A", 2021, Num(-2)), Record("A", 2022, Num(8))>>
IsExampleCall ==
    /\ ~IsNone(calc_call)
    /\ inflation_df = ExampleTable
    /\ Calc.country = "A" /\ Calc.start_year = 2020 /\ Calc.end_year = 2022
    /\ Calc.initial_amount = Num(100)

\* C4: the series is built by multiplicative compounding: its first point is
\* (start_year, 100, initial_amount); the later in-range records of the
\* country, taken in ascending year order, give the further points with
\* price_index[i] = price_index[i-1] * (1 + inflation/100) and
\* adjusted_value[i] = initial_amount * price_index[i] / 100; the rate of
\* start_year is never applied.  For (A,2020,5), (A,2021,-2), (A,2022,8) and
\* amount 100 over 2020..2022 the index runs 100, 98, 105.84 and the final
\* value is 105.84.
C4_MultiplicativeCompounding ==
    /\ CalcPresent =>
        /\ Series[1] = [year |-> Calc.start_year, price_index |-> Num(100),
                        adjusted_value |-> Calc.initial_amount]
        /\ \E later \in sort_values_year(SelectSeq(inflation_df, Later)) :
            /\ Len(Series) = 1 + Len(later)
            /\ \A i \in 1..Len(later) :
                /\ Series[i + 1].year = later[i].year
                /\ Series[i + 1].price_index =
                        RMul(Series[i].price_index, Factor(later[i].inflation))
                /\ Series[i + 1].adjusted_value =
                        RDiv(RMul(Calc.initial_amount, Series[i + 1].price_index), Num(100))
    /\ IsExampleCall =>
        /\ CalcPresent
        /\ [i \in 1..Len(Series) |-> Series[i].price_index]
                = <<Num(100), Num(98), Rat(10584, 100)>>
        /\ Calc.ret.final = Some(Rat(10584, 100))

\* C4 witness: the example call has been made and returned three points.
C4_Witness == IsExampleCall /\ CalcPresent /\ Len(Series) = 3

\* C5: the result is (None, None) exactly when the table holds no record of
\* the country with start_year <= year <= end_year; otherwise both outputs are
\* present and the final value is the adjusted_value of the last point.
C5_AbsentExactlyWhenNoData ==
    ~IsNone(calc_call) =>
        /\ IsNone(Calc.ret.df) <=> ~\E i \in 1..Len(inflation_df) : InRange(inflation_df[i])
        /\ IsNone(Calc.ret.final) <=> IsNone(Calc.ret.df)
        /\ ~IsNone(Calc.ret.df) =>
                The(Calc.ret.final) = Series[Len(Series)].adjusted_value

\* C5 witness: the country has records, the span is reversed (start_year >
\* end_year), and both outputs are absent.
C5_Witness ==
    /\ ~IsNone(calc_call)
    /\ Calc.start_year > Calc.end_year
    /\ \E i \in 1..Len(inflation_df) : inflation_df[i].country = Calc.country
    /\ IsNone(Calc.ret.df) /\ IsNone(Calc.ret.final)

\* C5 witness of the other direction: only the start year has a record and
\* the result is present.
C5_WitnessPresent ==
    /\ CalcPresent
    /\ \A i \in 1..Len(inflation_df) :
            InRange(inflation_df[i]) => inflation_df[i].year = Calc.start_year

\* C6: seed preservation.  When a result is returned and the selected records
\* hold no year other than start_year (in particular when start_year =
\* end_year), the series has exactly one point, its adjusted_value is
\* initial_amount, and the final value is initial_amount.
C6_SeedPreserved ==
    (CalcPresent /\ ~\E i \in 1..Len(inflation_df) : Later(inflation_df[i])) =>
        /\ Len(Series) = 1
        /\ Series[1].adjusted_value = Calc.initial_amount
        /\ Calc.ret.final = Some(Calc.initial_amount)

\* C6 witness: start_year = end_year, the year has two records with non-zero
\* rates, and a result is returned.
C6_Witness ==
    /\ CalcPresent
    /\ Calc.start_year = Calc.end_year
    /\ Cardinality({i \in 1..Len(inflation_df) : InRange(inflation_df[i])}) = 2

(***************************************************************************)
(* Claims about the trajectory matrix and cluster_countries                *)
(***************************************************************************)
Cluster == The(cluster_call)
Pivot == Cluster.pivot_data
InputYears == {inflation_df[i].year : i \in 1..Len(inflation_df)}
InputCountries == {inflation_df[i].country : i \in 1..Len(inflation_df)}
EligibleCountries == InputCountries \cap DOMAIN COUNTRY_COORDS
RecordsOf(c, y) ==
    {i \in 1..Len(inflation_df) : inflation_df[i].country = c /\ inflation_df[i].year = y}

RECURSIVE SumInflation(_)
SumInflation(I) ==
    IF I = {} THEN Num(0)
    ELSE LET i == CHOOSE k \in I : TRUE
         IN  RAdd(inflation_df[i].inflation, SumInflation(I \ {i}))

MeanOf(c, y) == RDiv(SumInflation(RecordsOf(c, y)), Num(Cardinality(RecordsOf(c, y))))

\* C7: the trajectory matrix has no missing cell; its columns are exactly the
\* distinct years of the input table in ascending order; its rows are exactly
\* the distinct countries of the input that are keys of the coordinate table;
\* and a cell with one or more input records holds the mean of their
\* inflation values.
C7_TrajectoryMatrix ==
    ~IsNone(cluster_call) =>
        /\ Len(Pivot.values) = Len(Pivot.index)
        /\ \A i \in 1..Len(Pivot.index) :
                /\ Len(Pivot.values[i]) = Len(Pivot.columns)
                /\ \A j \in 1..Len(Pivot.columns) : ~IsNone(Pivot.values[i][j])
        /\ Range(Pivot.columns) = InputYears
        /\ \A j \in 1..(Len(Pivot.columns) - 1) : Pivot.columns[j] < Pivot.columns[j + 1]
        /\ Range(Pivot.index) = EligibleCountries
        /\ Len(Pivot.index) = Cardinality(EligibleCountries)
        /\ \A i \in 1..Len(Pivot.index), j \in 1..Len(Pivot.columns) :
                RecordsOf(Pivot.index[i], Pivot.columns[j]) # {} =>
                    Pivot.values[i][j] = Some(MeanOf(Pivot.index[i], Pivot.columns[j]))

\* C7 witness: a matrix of two rows and two columns in which one cell is the
\* mean 5/2 of two records and another cell had no record.
C7_Witness ==
    /\ ~IsNone(cluster_call)
    /\ Len(Pivot.index) = 2 /\ Len(Pivot.columns) = 2
    /\ \E i \in 1..2, j \in 1..2 :
            /\ Cardinality(RecordsOf(Pivot.index[i], Pivot.columns[j])) = 2
            /\ Pivot.values[i][j] = Some(Rat(5, 2))
    /\ \E i \in 1..2, j \in 1..2 : RecordsOf(Pivot.index[i], Pivot.columns[j]) = {}

\* The fill the claim describes for a cell (c, y) without records: country
\* c's value at the latest earlier year that has one, otherwise at the
\* earliest later year that has one, otherwise 0.
OwnRowFill(c, y) ==
    LET earlier == {z \in InputYears : z < y /\ RecordsOf(c, z) # {}}
        later == {z \in InputYears : z > y /\ RecordsOf(c, z) # {}}
    IN  IF earlier # {}
        THEN MeanOf(c, CHOOSE z \in earlier : \A w \in earlier : w <= z)
        ELSE IF later # {}
        THEN MeanOf(c, CHOOSE z \in later : \A w \in later : z <= w)
        ELSE Num(0)

\* C8: gap filling works along each country's own year sequence: a cell
\* without input records takes the country's own forward-filled value, else
\* its own backward-filled value, else 0, and never a value from another
\* country's row.
C8_FillAlongOwnRow ==
    ~IsNone(cluster_call) =>
        \A i \in 1..Len(Pivot.index), j \in 1..Len(Pivot.columns) :
            RecordsOf(Pivot.index[i], Pivot.columns[j]) = {} =>
                Pivot.values[i][j] = Some(OwnRowFill(Pivot.index[i], Pivot.columns[j]))

\* C9: cluster_countries(T, k) returns None exactly when fewer than k distinct
\* countries of T have coordinates; with k or more it returns an assignment.
C9_UnavailableExactlyWhenTooFew ==
    ~IsNone(cluster_call) =>
        (IsNone(Cluster.ret) <=> Cardinality(EligibleCountries) < Cluster.n_clusters)

\* C9 witness: exactly k = 2 eligible countries, and an assignment is returned.
C9_Witness ==
    /\ ~IsNone(cluster_call)
    /\ Cluster.n_clusters = 2
    /\ Cardinality(EligibleCountries) = 2
    /\ ~IsNone(Cluster.ret)

\* C9 witness of the other direction: one eligible country, k = 2, None.
C9_WitnessUnavailable ==
    /\ ~IsNone(cluster_call)
    /\ Cluster.n_clusters = 2
    /\ Cardinality(EligibleCountries) = 1
    /\ IsNone(Cluster.ret)

\* C10: a returned assignment has exactly the rows of the trajectory matrix
\* as keys (no country without coordinates), every value is an id with
\* 0 <= id < k, and a call repeated on the same table and k returns the same
\* assignment as the call before it.
C10_AssignmentShapeAndRepeatability ==
    /\ (~IsNone(cluster_call) /\ ~IsNone(Cluster.ret)) =>
        /\ DOMAIN The(Cluster.ret).cluster_map = Range(Pivot.index)
        /\ DOMAIN The(Cluster.ret).cluster_map = EligibleCountries
        /\ \A c \in DOMAIN The(Cluster.ret).cluster_map :
                /\ The(Cluster.ret).cluster_map[c] \in Int
                /\ 0 <= The(Cluster.ret).cluster_map[c]
                /\ The(Cluster.ret).cluster_map[c] < Cluster.n_clusters
    /\ (/\ ~IsNone(cluster_call)
        /\ ~IsNone(last_cluster)
        /\ The(last_cluster).n_clusters = Cluster.n_clusters) =>
            Cluster.ret = The(last_cluster).ret

\* C10 witness: two consecutive runs clustered two countries into k = 2, the
\* table also holding a country without coordinates.
C10_Witness ==
    /\ ~IsNone(cluster_call) /\ ~IsNone(last_cluster)
    /\ Cluster.n_clusters = 2 /\ The(last_cluster).n_clusters = 2
    /\ ~IsNone(Cluster.ret)
    /\ Len(Pivot.index) = 2
    /\ "B" \in InputCountries

(***************************************************************************)
(* Claims about find_similar_countries                                     *)
(***************************************************************************)
Similar == The(similar_call)
SimilarPresent == ~IsNone(similar_call) /\ ~IsNone(Similar.ret)
SimilarRet == The(Similar.ret)
ResultCountries == {SimilarRet[i].country : i \in 1..Len(SimilarRet)}
MatrixCountries == Range(Similar.pivot_data.index)
RowOf(c) ==
    RowVector(Similar.pivot_data.values,
              CHOOSE i \in 1..Len(Similar.pivot_data.index) :
                  Similar.pivot_data.index[i] = c)
ScoreOf(c) == cosine_similarity(RowOf(c), RowOf(Similar.target_country))
NameBefore(a, b) ==
    \E i, j \in 1..Len(CountryOrder) :
        i < j /\ CountryOrder[i] = a /\ CountryOrder[j] = b
LeftOut == (MatrixCountries \ {Similar.target_country}) \ ResultCountries

\* C11: a returned ranking never includes the target country, whatever the
\* other rows of the matrix are (rows identical or proportional to the
\* target's, or a target row of zeros).
C11_TargetNeverInResult ==
    SimilarPresent => Similar.target_country \notin ResultCountries

\* C12: a returned ranking has at most top_n entries, in non-increasing order
\* of score, and they are the highest-scoring countries other than the
\* target: no other country that is left out scores strictly more than an
\* included one.
C12_TopScoringOthers ==
    SimilarPresent =>
        /\ Len(SimilarRet) <= Similar.top_n
        /\ \A i \in 1..(Len(SimilarRet) - 1) :
                RLeq(SimilarRet[i + 1].score, SimilarRet[i].score)
        /\ \A x \in LeftOut : \A i \in 1..Len(SimilarRet) :
                ~RLess(SimilarRet[i].score, ScoreOf(x))

\* C13: countries of equal score are ranked by name ascending, inside the
\* ranking and at the top_n cut: a country other than the target that is
\* left out never ties with an included country of a later name.
C13_TiesByNameAscending ==
    SimilarPresent =>
        /\ \A i \in 1..(Len(SimilarRet) - 1) :
                SimilarRet[i].score = SimilarRet[i + 1].score =>
                    NameBefore(SimilarRet[i].country, SimilarRet[i + 1].country)
        /\ \A x \in LeftOut : \A i \in 1..Len(SimilarRet) :
                SimilarRet[i].score = ScoreOf(x) =>
                    NameBefore(SimilarRet[i].country, x)

\* C14: find_similar_countries returns None exactly when the target is not
\* a row of the trajectory matrix, that is, when it has no record in the
\* table or has records but no entry in the coordinate table; otherwise it
\* returns a ranking, which may be empty.
C14_NotFoundExactlyWhenNotARow ==
    ~IsNone(similar_call) =>
        /\ IsNone(Similar.ret) <=> Similar.target_country \notin EligibleCountries
        /\ EligibleCountries = MatrixCountries

\* C14 witness: the target has records in the table but no coordinates, other
\* countries are rows of the matrix, and the call returned None.
C14_Witness ==
    /\ ~IsNone(similar_call)
    /\ Similar.target_country \in InputCountries \ DOMAIN COUNTRY_COORDS
    /\ MatrixCountries # {}
    /\ IsNone(Similar.ret)

\* The other cases of C14: a target with no record at all in a non-empty
\* table, a target that is the only row (empty ranking), and a target with
\* other rows to rank.
C14_WitnessNoRecord ==
    /\ ~IsNone(similar_call)
    /\ Similar.target_country \in DOMAIN COUNTRY_COORDS \ InputCountries
    /\ MatrixCountries # {}
    /\ IsNone(Similar.ret)

C14_WitnessEmptyRanking ==
    /\ SimilarPresent
    /\ MatrixCountries = {Similar.target_country}
    /\ SimilarRet = <<>>

C14_WitnessRanking == SimilarPresent /\ Len(SimilarRet) = 2

(***************************************************************************)
(* Claims about generate_insights                                          *)
(***************************************************************************)
Insights == The(insights_call)
InsightsRet == Insights.ret
KindOrder ==
    <<"Regional Analysis", "Geographic Pattern", "Trend Alert",
      "High Inflation Alert", "Deflation Alert">>
KindRank(kind) == CHOOSE k \in 1..Len(KindOrder) : KindOrder[k] = kind
StatementsOf(kind) ==
    LET OfKind(statement) == statement.kind = kind
    IN  SelectSeq(InsightsRet, OfKind)
Emitted(kind) == Len(StatementsOf(kind)) > 0
MapRowsWhere(Test(_)) ==
    {i \in 1..Len(Insights.map_data) : Test(Insights.map_data[i].inflation)}
SelectedRows ==
    {i \in 1..Len(Insights.inflation_df) :
        /\ ~IsNone(Insights.selected_country)
        /\ Insights.inflation_df[i].country = The(Insights.selected_country)}

\* What each check needs in order to contribute its statement.
Precondition(kind) ==
    CASE kind = "Regional Analysis" -> Insights.selected_regions # {}
      [] kind = "Geographic Pattern" -> Len(Insights.map_data) > 0
      [] kind = "Trend Alert" -> Cardinality(SelectedRows) >= 2
      [] kind = "High Inflation Alert" ->
            MapRowsWhere(LAMBDA x : RLess(Num(10), x)) # {}
      [] kind = "Deflation Alert" ->
            MapRowsWhere(LAMBDA x : RLess(x, Num(0))) # {}

\* C15: the statements come in the fixed order regional average, highest
\* region, country trend, high-inflation alert, deflation alert, at most one
\* of each, and each is present exactly when its own precondition holds,
\* whatever the other checks' preconditions are.
C15_FixedOrderIndependentChecks ==
    ~IsNone(insights_call) =>
        /\ \A i \in 1..Len(InsightsRet) : InsightsRet[i].kind \in Range(KindOrder)
        /\ \A i \in 1..(Len(InsightsRet) - 1) :
                KindRank(InsightsRet[i].kind) < KindRank(InsightsRet[i + 1].kind)
        /\ \A kind \in Range(KindOrder) : Emitted(kind) <=> Precondition(kind)

\* C15 witness: no region and no country is selected, so the first and the
\* third check contribute nothing, and the other three statements are there.
C15_Witness ==
    /\ ~IsNone(insights_call)
    /\ Insights.selected_regions = {}
    /\ IsNone(Insights.selected_country)
    /\ Len(InsightsRet) = 3
    /\ Emitted("Geographic Pattern")
    /\ Emitted("High Inflation Alert")
    /\ Emitted("Deflation Alert")

\* All five statements at once.
C15_WitnessAll == ~IsNone(insights_call) /\ Len(InsightsRet) = 5

\* C16: no statement reports an undefined figure: a statement that carries
\* an average carries a number, never the mean of zero rows.
C16_NoUndefinedFigure ==
    ~IsNone(insights_call) =>
        \A i \in 1..Len(InsightsRet) :
            InsightsRet[i].kind \in {"Regional Analysis", "Geographic Pattern"} =>
                ~IsNone(InsightsRet[i].figure)

\* The selected country's records in the table given to generate_insights,
\* in every order that is ascending in the year.
SelectedRecords ==
    LET OfCountry(row) ==
            /\ ~IsNone(Insights.selected_country)
            /\ row.country = The(Insights.selected_country)
    IN  SelectSeq(Insights.inflation_df, OfCountry)
ByYear ==
    {s \in {[i \in 1..Len(SelectedRecords) |-> SelectedRecords[f[i]]] :
                f \in Permutations(1..Len(SelectedRecords))} :
        \A i \in 1..(Len(s) - 1) : s[i].year <= s[i + 1].year}
WindowSize(s) == IF Len(s) < 3 THEN Len(s) ELSE 3
MeanAt(s, I) ==
    LET RECURSIVE Sum(_)
        Sum(J) == IF J = {} THEN Num(0)
                  ELSE LET j == CHOOSE k \in J : TRUE
                       IN  RAdd(s[j].inflation, Sum(J \ {j}))
    IN  RDiv(Sum(I), Num(Cardinality(I)))
RecentMean(s) == MeanAt(s, (Len(s) - WindowSize(s) + 1)..Len(s))
EarlierMean(s) == MeanAt(s, 1..WindowSize(s))
Classification(recent, earlier) ==
    LET change == RSub(recent, earlier)
    IN  IF RLess(Num(1), change) THEN "increased"
        ELSE IF RLess(change, Num(-1)) THEN "decreased"
        ELSE "remained relatively stable"

\* C17: the trend statement is emitted exactly when a country is selected
\* and has at least 2 records in the table; it names that country, and for
\* the records in ascending year order its word is the classification of
\* recent (mean of the last min(3, count) values) against earlier (mean of
\* the first min(3, count) values): increased above +1, decreased below -1,
\* stable otherwise.
C17_TrendClassification ==
    ~IsNone(insights_call) =>
        IF Len(SelectedRecords) < 2 THEN ~Emitted("Trend Alert")
        ELSE /\ Len(StatementsOf("Trend Alert")) = 1
             /\ StatementsOf("Trend Alert")[1].country = The(Insights.selected_country)
             /\ \E s \in ByYear :
                    StatementsOf("Trend Alert")[1].trend_word =
                        Classification(RecentMean(s), EarlierMean(s))

\* C17 witness: four records whose year order is forced, recent exactly one
\* point above earlier, reported as stable.
C17_Witness ==
    /\ ~IsNone(insights_call)
    /\ Insights.inflation_df =
            <<Record("A", 2020, Num(-1)), Record("A", 2021, Num(2)),
              Record("A", 2021, Num(2)), Record("A", 2021, Num(2))>>
    /\ Insights.selected_country = Some("A")
    /\ Emitted("Trend Alert")
    /\ StatementsOf("Trend Alert")[1].trend_word = "remained relatively stable"

\* The other words of C17, and the case of a single record.
C17_WitnessIncreased ==
    /\ ~IsNone(insights_call)
    /\ Emitted("Trend Alert")
    /\ StatementsOf("Trend Alert")[1].trend_word = "increased"

C17_WitnessDecreased ==
    /\ ~IsNone(insights_call)
    /\ Emitted("Trend Alert")
    /\ StatementsOf("Trend Alert")[1].trend_word = "decreased"

C17_WitnessOneRecord ==
    /\ ~IsNone(insights_call)
    /\ Len(SelectedRecords) = 1
    /\ ~Emitted("Trend Alert")

\* C18: the high-inflation alert is emitted exactly when some map row has
\* inflation strictly above 10 and reports how many rows do; the deflation
\* alert is emitted exactly when some map row has inflation strictly below 0
\* and reports how many rows do.
C18_AlertCounts ==
    ~IsNone(insights_call) =>
        LET high == MapRowsWhere(LAMBDA x : RLess(Num(10), x))
            deflation == MapRowsWhere(LAMBDA x : RLess(x, Num(0)))
        IN  /\ Len(StatementsOf("High Inflation Alert")) = (IF high = {} THEN 0 ELSE 1)
            /\ high # {} =>
                  /\ StatementsOf("High Inflation Alert")[1].count = Cardinality(high)
                  /\ StatementsOf("High Inflation Alert")[1].year = Insights.selected_year
            /\ Len(StatementsOf("Deflation Alert")) = (IF deflation = {} THEN 0 ELSE 1)
            /\ deflation # {} =>
                  /\ StatementsOf("Deflation Alert")[1].count = Cardinality(deflation)
                  /\ StatementsOf("Deflation Alert")[1].year = Insights.selected_year

\* C18 witness: map rows at exactly 10, above 10 and below 0; each alert
\* counts one row.
C18_Witness ==
    /\ ~IsNone(insights_call)
    /\ MapRowsWhere(LAMBDA x : x = Num(10)) # {}
    /\ Emitted("High Inflation Alert")
    /\ StatementsOf("High Inflation Alert")[1].count = 1
    /\ Emitted("Deflation Alert")
    /\ StatementsOf("Deflation Alert")[1].count = 1

\* A row at exactly 10 alone raises no alert.
C18_WitnessNoAlert ==
    /\ ~IsNone(insights_call)
    /\ MapRowsWhere(LAMBDA x : x = Num(10)) # {}
    /\ ~Emitted("High Inflation Alert")
    /\ ~Emitted("Deflation Alert")

RegionRows(r) ==
    {i \in 1..Len(Insights.map_data) :
        /\ Insights.map_data[i].country \in DOMAIN COUNTRY_REGIONS
        /\ COUNTRY_REGIONS[Insights.map_data[i].country] = r}
RegionsPresent ==
    {r \in {COUNTRY_REGIONS[c] : c \in DOMAIN COUNTRY_REGIONS} : RegionRows(r) # {}}
RegionMean(r) == MeanAt(Insights.map_data, RegionRows(r))

FetchFailed == IsNone(fetch_ret) \/ The(fetch_ret) = <<>>

\* C20: a run whose fetch yielded None or an empty table shows the failure
\* message and stops, and in that run none of prepare_map_data,
\* generate_insights, calculate_adjusted_value, cluster_countries and
\* find_similar_countries is called.
C20_UpstreamFailureIsTerminal ==
    (pc \notin {"fetch", "guard"} /\ FetchFailed) =>
        /\ pc = "stopped"
        /\ ~IsNone(st_error)
        /\ IsNone(map_call)
        /\ IsNone(insights_call)
        /\ IsNone(calc_call)
        /\ IsNone(cluster_call)
        /\ IsNone(similar_call)

\* C20 witness: a failed fetch after an earlier run that did cluster the
\* countries; the script has stopped with the message shown.
C20_Witness ==
    /\ pc = "stopped"
    /\ IsNone(fetch_ret)
    /\ ~IsNone(st_error)
    /\ ~IsNone(last_cluster)

\* C24: the returned series is in strictly increasing year order, starts at
\* start_year, stays inside [start_year, end_year] and so has at most one
\* point per year, whatever the table, several records for one (country,
\* year) included.
C24_StrictlyIncreasingYears ==
    CalcPresent =>
        /\ Series[1].year = Calc.start_year
        /\ \A i \in 1..Len(Series) :
                Calc.start_year <= Series[i].year /\ Series[i].year <= Calc.end_year
        /\ \A i \in 1..(Len(Series) - 1) : Series[i].year < Series[i + 1].year

\* The table without the records of countries that have no coordinates.
EligibleOnly(df) ==
    LET HasEntry(row) == row.country \in DOMAIN COUNTRY_COORDS
    IN  SelectSeq(df, HasEntry)

\* C25: records of countries without coordinates do not influence pattern
\* analysis: the trajectory matrix cluster_countries returns is the one it
\* returns for the table with those records taken out, so any two tables
\* that differ only in such records give every eligible country the same
\* matrix values.
C25_IneligibleRecordsHaveNoInfluence ==
    (~IsNone(cluster_call) /\ ~IsNone(Cluster.ret)) =>
        The(Cluster.ret).pivot_data = trajectory_matrix(EligibleOnly(inflation_df))

\* The find_similar_countries half of C25: what a call returns is something
\* the call on the table without the ineligible records can return.
C25_SimilarUnaffected ==
    ~IsNone(similar_call) =>
        Similar.ret \in find_similar_countries(Similar.target_country,
                                               EligibleOnly(inflation_df),
                                               Similar.top_n)

\* C26: with exactly 2 or exactly 3 records of the selected country the two
\* windows of the trend check hold the same records, so the trend is
\* reported as stable whatever the rates are; increased and decreased are
\* reported only for a country with 4 or more records.
C26_ShortSeriesAlwaysStable ==
    (~IsNone(insights_call) /\ Emitted("Trend Alert")) =>
        /\ Len(SelectedRecords) \in {2, 3} =>
                StatementsOf("Trend Alert")[1].trend_word = "remained relatively stable"
        /\ StatementsOf("Trend Alert")[1].trend_word \in {"increased", "decreased"} =>
                Len(SelectedRecords) >= 4

\* C26 witness: three records, the first 12 points below the other two,
\* reported as stable.
C26_Witness ==
    /\ ~IsNone(insights_call)
    /\ Insights.inflation_df =
            <<Record("A", 2020, Num(-1)), Record("A", 2021, Num(11)),
              Record("A", 2021, Num(11))>>
    /\ Emitted("Trend Alert")
    /\ StatementsOf("Trend Alert")[1].trend_word = "remained relatively stable"

\* Two records far apart, reported as stable as well.
C26_WitnessTwoRecords ==
    /\ ~IsNone(insights_call)
    /\ Insights.inflation_df = <<Record("A", 2020, Num(-1)), Record("A", 2021, Num(11))>>
    /\ Emitted("Trend Alert")
    /\ StatementsOf("Trend Alert")[1].trend_word = "remained relatively stable"

(***************************************************************************)
(* Claims about fetch_inflation_data                                       *)
(***************************************************************************)
Loop == The(fetch_loop)
FetchReturned == ~IsNone(fetch_loop) /\ pc = "guard"
YearTexts == {"2020", "2021"}
YearOfText(date) == IF date = "2020" THEN 2020 ELSE 2021

\* A response that is not a page of the dataset: the request failed, the
\* server answered with an error status, or the payload does not have the
\* [metadata, items] form with items that carry a year.
IsFailure(response) ==
    \/ response.kind \in {"network", "http", "invalid_json", "short"}
    \/ /\ response.kind = "page"
       /\ \E j \in 1..Len(response.items) :
            /\ ~IsNone(response.items[j].value)
            /\ response.items[j].date \notin YearTexts

\* The records the items of one page stand for, null items left out.
RecordsOfPage(items) ==
    LET HasValue(item) == ~IsNone(item.value)
    IN  MapSeq(LAMBDA item : Record(item.country, YearOfText(item.date), The(item.value)),
               SelectSeq(items, HasValue))

RECURSIVE RecordsOfPages(_, _)
RecordsOfPages(responses, k) ==
    IF k = 0 THEN <<>>
    ELSE RecordsOfPages(responses, k - 1) \o RecordsOfPage(responses[k].items)

\* C21: fetch_inflation_data never raises and never returns a partial
\* table: when the request for some page failed (network error, HTTP error
\* status or malformed payload) the result is None, whatever was collected
\* before; and every record of a returned table comes from an item with a
\* non-null value, with the integer year its date denotes.
C21_NoPartialTable ==
    /\ pc # "crashed"
    /\ FetchReturned =>
        /\ (\E i \in 1..Len(Loop.responses) : IsFailure(Loop.responses[i])) =>
                IsNone(fetch_ret)
        /\ ~IsNone(fetch_ret) =>
                \A i \in 1..Len(The(fetch_ret)) :
                    /\ The(fetch_ret)[i].year \in Int
                    /\ \E r \in 1..Len(Loop.responses) :
                         \E j \in 1..Len(Loop.responses[r].items) :
                            /\ ~IsNone(Loop.responses[r].items[j].value)
                            /\ Loop.responses[r].items[j].date \in YearTexts
                            /\ The(fetch_ret)[i] = RecordsOfPage(<<Loop.responses[r].items[j]>>)[1]

\* Every response so far is a page, or an empty page, whose metadata reports
\* the page count N.
AllReport(N) ==
    /\ Len(Loop.responses) > 0
    /\ \A i \in 1..Len(Loop.responses) :
            /\ Loop.responses[i].kind \in {"page", "empty"}
            /\ ~IsFailure(Loop.responses[i])
            /\ Loop.responses[i].pages = Some(N)

\* Pages are requested in the order 1, 2, 3, ..., each once.
RequestsInOrder == \A i \in 1..Len(Loop.requests) : Loop.requests[i] = i

\* A returned table holds the non-null items of every page received, in page
\* order, and the pages received are pages 1 to N or end with an empty page.
NoPageSkipped(N) ==
    (FetchReturned /\ ~IsNone(fetch_ret)) =>
        /\ The(fetch_ret) = RecordsOfPages(Loop.responses, Len(Loop.responses))
        /\ \/ Len(Loop.requests) >= N
           \/ Loop.responses[Len(Loop.responses)].kind = "empty"

\* C22 as stated: pages are requested in increasing order, each at most
\* once; when every response reports the same page count N the loop ends
\* after at most N requests; and a returned table holds every non-null item
\* of every page from 1 to N, or up to the first empty page.
C22_AtMostNRequests ==
    ~IsNone(fetch_loop) =>
        /\ RequestsInOrder
        /\ \A N \in 0..MaxPages :
              AllReport(N) =>
                  /\ Len(Loop.requests) <= N
                  /\ Len(Loop.requests) >= N => pc # "request"
                  /\ NoPageSkipped(N)

\* C22, amended: the first request is always made, so the loop ends after at
\* most max(N, 1) requests; the rest as stated.
C22_AtMostNRequestsButOne ==
    ~IsNone(fetch_loop) =>
        /\ RequestsInOrder
        /\ \A N \in 0..MaxPages :
              AllReport(N) =>
                  /\ Len(Loop.requests) <= (IF N = 0 THEN 1 ELSE N)
                  /\ Len(Loop.requests) >= N => pc # "request"
                  /\ NoPageSkipped(N)

\* C22 witness: three pages, each reporting 3 pages, requested as 1, 2, 3;
\* the returned table holds their items with a value.
C22_Witness ==
    /\ FetchReturned
    /\ AllReport(3)
    /\ Loop.requests = <<1, 2, 3>>
    /\ \A i \in 1..3 : Loop.responses[i].kind = "page"
    /\ ~IsNone(fetch_ret)
    /\ Len(The(fetch_ret)) >= 3

\* The case the amendment is about: the first page is empty and reports 0
\* pages; one request was made and the result is None.
C22_WitnessNoPages ==
    /\ FetchReturned
    /\ AllReport(0)
    /\ Loop.requests = <<1>>
    /\ IsNone(fetch_ret)

\* A table cut short by an empty page before page N.
C22_WitnessEmptyPage ==
    /\ FetchReturned
    /\ AllReport(3)
    /\ Loop.requests = <<1, 2>>
    /\ Loop.responses[2].kind = "empty"
    /\ ~IsNone(fetch_ret)

(***************************************************************************)
(* Claims about the map tab                                                *)
(***************************************************************************)
View == The(map_view)

MapShown == ~IsNone(map_view)

ClusteringAvailable == View.toggles.show_clusters /\ ~IsNone(View.cluster_result)

\* The colour the override order gives the i-th row of the map table.
OverrideOrderColor(i) ==
    IF ~IsNone(View.toggles.selected_country)
          /\ View.map_data[i].country = The(View.toggles.selected_country)
    THEN BrightYellowColor
    ELSE IF View.toggles.highlight_deflation /\ RLess(View.map_data[i].inflation, Num(0))
    THEN CyanColor
    ELSE IF View.toggles.highlight_high_inflation
               /\ RLess(View.toggles.high_inflation_threshold, View.map_data[i].inflation)
    THEN MagentaColor
    ELSE IF ClusteringAvailable
    THEN View.clustered[i].color
    ELSE get_color(View.map_data[i].inflation)

\* C23: for every combination of toggles the final colour of a map row is
\* bright yellow for the selected country, otherwise cyan for highlighted
\* deflation, otherwise magenta for highlighted high inflation, otherwise
\* the cluster colour when clustering is on and available, otherwise the
\* inflation band colour.
C23_FixedOverrideOrder ==
    MapShown =>
        /\ Len(View.rows) = Len(View.map_data)
        /\ \A i \in 1..Len(View.rows) :
              /\ View.rows[i].country = View.map_data[i].country
              /\ View.rows[i].color = OverrideOrderColor(i)

\* One map showing all four overrides at once: the selected country has
\* deflation and is bright yellow, another deflation row is cyan, a high
\* inflation row is magenta and a fourth row keeps its cluster colour.
C23_Witness ==
    /\ MapShown
    /\ ClusteringAvailable
    /\ View.toggles.highlight_deflation
    /\ View.toggles.highlight_high_inflation
    /\ \E i, j, k, l \in 1..Len(View.rows) :
          /\ View.rows[i].color = BrightYellowColor
          /\ RLess(View.map_data[i].inflation, Num(0))
          /\ View.rows[j].color = CyanColor
          /\ View.rows[k].color = MagentaColor
          /\ View.rows[l].color \in {cluster_colors[id] : id \in DOMAIN cluster_colors}

\* A map without clustering where an unhighlighted row keeps its band colour
\* next to a selected row.
C23_WitnessBandColour ==
    /\ MapShown
    /\ ~View.toggles.show_clusters
    /\ \E i, j \in 1..Len(View.rows) :
          /\ View.rows[i].color = BrightYellowColor
          /\ View.rows[j].color = get_color(View.map_data[j].inflation)
          /\ View.rows[j].color # BrightYellowColor

\* C27: whenever the map tab is reached, the map table of the selected
\* regions and year has at least one row, so the summary statistics never
\* look up the maximum or minimum of an empty table.
C27_SummaryOnNonEmptyMap ==
    MapShown => (Len(View.map_data) > 0 /\ pc # "crashed")

\* C29: when clustering is enabled and cluster_countries returns an
\* assignment, the countries of the map table are keys of the assignment,
\* every assigned id is one of 0..3, and every displayed row has one of the
\* four cluster colours, never the grey fallback.
C29_NeverGreyFallback ==
    (MapShown /\ ClusteringAvailable) =>
        /\ {View.map_data[i].country : i \in 1..Len(View.map_data)}
              \subseteq DOMAIN The(View.cluster_result).cluster_map
        /\ \A c \in DOMAIN The(View.cluster_result).cluster_map :
              The(View.cluster_result).cluster_map[c] \in 0..3
        /\ \A i \in 1..Len(View.clustered) :
              /\ View.clustered[i].color # GreyColor
              /\ View.clustered[i].color
                    = cluster_colors[The(View.cluster_result).cluster_map[View.map_data[i].country]]

\* A clustered map of four rows where some row is in the last cluster.
C29_Witness ==
    /\ MapShown
    /\ ClusteringAvailable
    /\ Len(View.clustered) = 4
    /\ \E i \in 1..4 : View.clustered[i].cluster = Some(3)

\* A clustered map where the assignment has keys that are not on the map:
\* countries whose records are of another year.
C29_WitnessKeyOffMap ==
    /\ MapShown
    /\ ClusteringAvailable
    /\ Len(View.clustered) = 2
    /\ \E c \in DOMAIN The(View.cluster_result).cluster_map :
          \A i \in 1..Len(View.map_data) : View.map_data[i].country # c

(***************************************************************************)
(* Claims about the calculator tab                                         *)
(***************************************************************************)
CalcView == The(calc_view)

CalculatePressed == ~IsNone(calc_view)

\* C28: for every accepted amount (0 included) and every start/end pair that
\* passes the start < end check, pressing Calculate ends in the result
\* display or in the 'no inflation data' message, and the cumulative
\* inflation is never computed with an amount of 0.
C28_NeverDividesByZero ==
    (CalculatePressed /\ CalcView.inputs.calc_start_year < CalcView.inputs.calc_end_year) =>
        /\ CalcView.outcome \in {"result", "no_data"}
        /\ pc # "crashed"
        /\ CalcView.outcome = "result" => CalcView.inputs.calc_amount # Num(0)

====
